---- MODULE Spec2Model ----
(***************************************************************************)
(* Price-drop notifier: the subscription store, the subscribe handler and  *)
(* the price-check scheduler (checkPriceDrops / processBatch).             *)
(*                                                                         *)
(* Conventions                                                             *)
(*   - an optional value (null / undefined / unset field) is <<>>, a       *)
(*     present value v is <<v>>;                                           *)
(*   - a price is an integer number of hundredths (100.00 is 10000);       *)
(*   - a text is a tuple of one-character strings;                         *)
(*   - time is in milliseconds, read from the variable clock (Date.now()). *)
(***************************************************************************)
EXTENDS Integers, Sequences, FiniteSets, TLC

VARIABLES
    clock,      \* wall clock, ms (Date.now(), new Date())
    store,      \* the subscriptions collection: sequence of documents, _id = index
    runs,       \* one record per checkPriceDrops invocation slot
    runSeq,     \* number of checkPriceDrops invocations started so far
    reqs,       \* one record per in-flight subscribe request
    requests,   \* history: every fetchCurrentPrice call issued
    sent,       \* history: every sendPriceDropEmail call issued
    seenLog,    \* history: every change of a stored lastSeenPrice
    checks,     \* history: every evaluation of a subscription by processBatch
    events,     \* history: outcomes of deliveries, saves, runs and timer calls
    transporter,      \* part_007 `transporter`: TRUE when the mail transport is set
    notifierInterval, \* notifier.service.ts `notifierInterval`: handle of the timer, or null
    timers,     \* the interval timers of the event loop: issued count, active handles
    scrape,     \* one call of scrapeProduct or of fetchCurrentPrice, from call to return
    parse,      \* the last call of parsePriceString: its argument and its value
    widget,     \* the floating widget made by initFloating: isOpen, the panel's style, timeouts
    page        \* the host page and the userscript's inject() call in progress

vars == <<clock, store, runs, runSeq, reqs, requests, sent, seenLog, checks,
          events, transporter, notifierInterval, timers, scrape, parse,
          widget, page>>

----------------------------------------------------------------------------
(* Optional values *)

None == <<>>

Some(v) == <<v>>

Get(o) == o[1]

\* a ?? b
Coalesce(a, b) == IF a # None THEN a ELSE b

----------------------------------------------------------------------------
(* Program constants (config/constants.ts) *)

MIN_CHECK_INTERVAL == 5 * 60 * 1000

DOMAIN_DELAY_MS == 2000

\* BATCH_SIZE is 20 in config/constants.ts; the model scales it down to
\* ScaledBatch so that a full batch and a final batch both occur with the
\* few subscriptions of the store.
ScaledBatch == 2

BATCH_SIZE == ScaledBatch

----------------------------------------------------------------------------
(* Bounds of the model *)

\* The instants the clock takes: up to MaxLong cooldown intervals after
\* the start, each followed by up to MaxSlack seconds.
MaxLong == 1

MaxSlack == 2

\* Number of checkPriceDrops invocations in one behaviour.
MaxRunStarts == 2

\* Amounts by which the clock advances in one step.
Durations == {1000, MIN_CHECK_INTERVAL}

Runs == {1, 2}

Reqs == {1, 2}

----------------------------------------------------------------------------
(* Texts and numbers *)

Digits == {"0", "1", "2", "3", "4", "5", "6", "7", "8", "9"}

DigitSeq == <<"0", "1", "2", "3", "4", "5", "6", "7", "8", "9">>

DigitVal(c) == (CHOOSE n \in 1..10 : DigitSeq[n] = c) - 1

\* Length of the longest prefix of s, starting at position i, made of
\* characters of the class cls.
RECURSIVE RunLen(_, _, _)
RunLen(s, i, cls) ==
    IF i > Len(s) \/ s[i] \notin cls THEN 0 ELSE 1 + RunLen(s, i + 1, cls)

\* Value of a tuple of digits read as a decimal integer.
RECURSIVE IntOf(_)
IntOf(ds) ==
    IF ds = <<>> THEN 0 ELSE 10 * IntOf(SubSeq(ds, 1, Len(ds) - 1)) + DigitVal(ds[Len(ds)])

\* The first two fractional digits as hundredths ("5" is 50, "05" is 5).
Hundredths(ds) ==
    IF Len(ds) = 0 THEN 0
    ELSE IF Len(ds) = 1 THEN 10 * DigitVal(ds[1])
    ELSE 10 * DigitVal(ds[1]) + DigitVal(ds[2])

\* JavaScript parseFloat on a text without leading blanks: optional sign,
\* digits, optional point and digits; NaN (None) when no digit was read.
\* Texts are bounded to two fractional digits, so hundredths are exact.
parseFloat(s) ==
    LET signed == Len(s) >= 1 /\ s[1] \in {"-", "+"}
        p0     == IF signed THEN 2 ELSE 1
        nInt   == RunLen(s, p0, Digits)
        p1     == p0 + nInt
        dot    == p1 <= Len(s) /\ s[p1] = "."
        nFrac  == IF dot THEN RunLen(s, p1 + 1, Digits) ELSE 0
        mag    == 100 * IntOf(SubSeq(s, p0, p1 - 1))
                  + Hundredths(SubSeq(s, p1 + 1, p1 + nFrac))
    IN  IF nInt + nFrac = 0 THEN None
        ELSE IF signed /\ s[1] = "-" THEN Some(0 - mag) ELSE Some(mag)

NumClass == Digits \cup {",", "."}

\* utils.ts parsePriceString: first token matching /[-+]?[0-9,.]+/, commas
\* removed, parseFloat, null unless finite.
parsePriceString(priceStr) ==
    IF priceStr = <<>> THEN None
    ELSE
      LET starts == { i \in 1..Len(priceStr) :
                        \/ priceStr[i] \in NumClass
                        \/ /\ priceStr[i] \in {"-", "+"}
                           /\ i < Len(priceStr)
                           /\ priceStr[i + 1] \in NumClass }
      IN  IF starts = {} THEN None
          ELSE
            LET b    == CHOOSE i \in starts : \A j \in starts : i <= j
                body == IF priceStr[b] \in NumClass THEN b ELSE b + 1
                e    == body + RunLen(priceStr, body, NumClass) - 1
                m    == SubSeq(priceStr, b, e)
                s    == SelectSeq(m, LAMBDA c : c # ",")
            IN  parseFloat(s)

\* scraper.service.ts fetchCurrentPrice, last lines: strip everything but
\* digits and dots, parseFloat, null when NaN.
stripAndParse(priceStr) ==
    parseFloat(SelectSeq(priceStr, LAMBDA c : c \in Digits \cup {"."}))

----------------------------------------------------------------------------
(* URLs, e-mail addresses, price texts *)

\* A URL is a record: valid says whether `new URL(url)` parses it.  A
\* protocol-less "shop.example/x" passes the route's isURL() validator and
\* is stored, but `new URL` throws on it.
U_A == [valid |-> TRUE, host |-> "shop.example", path |-> "/a"]

U_B == [valid |-> TRUE, host |-> "shop.example", path |-> "/b"]

U_C == [valid |-> TRUE, host |-> "other.example", path |-> "/c"]

U_X == [valid |-> FALSE, host |-> "", path |-> "shop.example/x"]

\* A second text that `new URL` cannot parse (no protocol).
U_Y == [valid |-> FALSE, host |-> "", path |-> "other.example/y"]

\* The keys the limiter's map can take.
Hosts == {"shop.example", "other.example", "unknown", U_X.path, U_Y.path}

extractDomain_urlAsBucket(url) == IF url.valid THEN url.host ELSE url.path

\* notifier.service.ts extractDomain
extractDomain(url) == IF url.valid THEN url.host ELSE "unknown"

\* utils.ts isValidUrl (every parseable URL of the model is http/https)
isValidUrl(url) == url.valid

T_100 == <<"$", "1", "0", "0", ".", "0", "0">>

T_8999 == <<"$", "8", "9", ".", "9", "9">>

T_105 == <<"$", "1", "0", "5", ".", "0", "0">>

\* Passes the route validator (has a non-zero digit) but its first numeric
\* token is ".", so parsePriceString gives null.
T_Rs500 == <<"R", "s", ".", " ", "5", "0", "0">>

\* Passes the route validator as well: it has a non-zero digit and is not
\* made of symbols only.
T_minus5 == <<"-", "5", ".", "0", "0">>

\* What the product page shows when it is fetched: a price text, or
\* "fail" (HTTP error, timeout, no price found).
PageOutcomes == {"fail", "same", "drop", "rise"}

PageText(o) ==
    CASE o = "same" -> T_100
      [] o = "drop" -> T_8999
      [] o = "rise" -> T_105
      [] OTHER -> <<>>

----------------------------------------------------------------------------
(* The subscriptions collection *)

\* part_009 subscribe, lines 83-95: the document `new Subscription({...})`
\* with lastSeenPrice seeded from the claimed price; timestamps: true.
NewSubscription(email, product, at) ==
    [ email          |-> email,
      product        |-> [ name          |-> product.name,
                           price         |-> product.price,
                           url           |-> product.url,
                           lastSeenPrice |-> parsePriceString(product.price) ],
      lastNotifiedAt |-> None,
      lastCheckedAt  |-> None,
      createdAt      |-> at ]

Ids == 1..Len(store)

\* Start of time of the model: Date.now() is far above DOMAIN_DELAY_MS.
T0 == 1000000

Instants ==
    { T0 + k * MIN_CHECK_INTERVAL + j * 1000 : k \in 0..MaxLong, j \in 0..MaxSlack }

\* The store the scheduler specification starts from: three accepted
\* subscriptions, two on the same host, one with an unparseable URL and
\* a claimed price that does not parse.
SeedStore ==
    << NewSubscription("alice@x.io", [name |-> "Kettle", price |-> T_100, url |-> U_A], T0),
       NewSubscription("bob@x.io", [name |-> "Toaster", price |-> T_100, url |-> U_B], T0),
       NewSubscription("alice@x.io", [name |-> "Lamp", price |-> T_Rs500, url |-> U_X], T0) >>

----------------------------------------------------------------------------
(* checkPriceDrops / processBatch *)

NoSub == [id |-> 0]

IdleRun ==
    [ pc                |-> "idle",
      inst              |-> 0,
      now               |-> 0,
      cursor            |-> <<>>,
      batch             |-> <<>>,
      phase             |-> "loop",
      i                 |-> 0,
      sub               |-> NoSub,
      domainLastRequest |-> [h \in Hosts |-> 0],
      wakeAt            |-> 0,
      currentPrice      |-> None,
      lastSeenPrice     |-> None,
      checked           |-> 0,
      notified          |-> 0,
      result            |-> None,
      caller            |-> "none",
      rejected          |-> FALSE,
      response          |-> 0 ]

Eligible_lte(doc, now) ==
    \/ doc.lastCheckedAt = None
    \/ Get(doc.lastCheckedAt) <= now - MIN_CHECK_INTERVAL

\* The query of checkPriceDrops, lines 42-50.
Eligible(doc, now) ==
    \/ doc.lastCheckedAt = None
    \/ Get(doc.lastCheckedAt) < now - MIN_CHECK_INTERVAL

mustWait_never(timeSinceLastRequest) == FALSE

\* processBatch line 126: the limiter suspends the caller.
mustWait(timeSinceLastRequest) == timeSinceLastRequest < DOMAIN_DELAY_MS

markChecked_forgotten(doc, at) == doc

\* processBatch line 138: sub.lastCheckedAt = new Date()
markChecked(doc, at) == [doc EXCEPT !.lastCheckedAt = Some(at)]

notComparable_onlyBaseline(currentPrice, lastSeenPrice) == lastSeenPrice = None

\* processBatch line 145: currentPrice == null || lastSeenPrice == null
notComparable(currentPrice, lastSeenPrice) == currentPrice = None \/ lastSeenPrice = None

priceChanged_onlyLower(currentPrice, lastSeenPrice) ==
    Get(currentPrice) < Get(lastSeenPrice)

\* processBatch line 151: currentPrice !== lastSeenPrice
priceChanged(currentPrice, lastSeenPrice) == currentPrice # lastSeenPrice

priceDropped_anyChange(currentPrice, lastSeenPrice) == currentPrice # lastSeenPrice

\* processBatch line 157: currentPrice < lastSeenPrice
priceDropped(currentPrice, lastSeenPrice) == Get(currentPrice) < Get(lastSeenPrice)

setLastSeen_unchanged(doc, currentPrice) == doc

\* processBatch line 152: sub.product.lastSeenPrice = currentPrice
setLastSeen(doc, currentPrice) == [doc EXCEPT !.product.lastSeenPrice = currentPrice]

PriceDropEmail_newAsOld(doc, lastSeenPrice, currentPrice) ==
    [ to          |-> doc.email,
      productName |-> doc.product.name,
      productUrl  |-> doc.product.url,
      oldPrice    |-> Get(doc.product.lastSeenPrice),
      newPrice    |-> Get(currentPrice) ]

\* processBatch lines 160-166: the argument of sendPriceDropEmail.
PriceDropEmail(doc, lastSeenPrice, currentPrice) ==
    [ to          |-> doc.email,
      productName |-> doc.product.name,
      productUrl  |-> doc.product.url,
      oldPrice    |-> Get(lastSeenPrice),
      newPrice    |-> Get(currentPrice) ]

\* The documents a query yields, in storage order, as in-memory copies.
RECURSIVE FindFrom(_, _)
FindFrom(k, now) ==
    IF k > Len(store) THEN <<>>
    ELSE IF Eligible(store[k], now)
         THEN <<[id |-> k, doc |-> store[k]]>> \o FindFrom(k + 1, now)
         ELSE FindFrom(k + 1, now)

\* `return { checked, notified }`; the manual trigger (part_008
\* triggerNotification) answers res.json({ok: true, result}).
Return(rec) ==
    [IdleRun EXCEPT !.result = Some([checked |-> rec.checked, notified |-> rec.notified]),
                    !.caller = rec.caller,
                    !.response = IF rec.caller = "manual" THEN 200 ELSE 0]

\* End of one iteration of the loop of processBatch (also `continue`):
\* the next item of the batch, or the return to checkPriceDrops.
NextItem(rec) ==
    LET done == [rec EXCEPT !.sub = NoSub, !.currentPrice = None, !.lastSeenPrice = None]
    IN  IF rec.i < Len(rec.batch)
        THEN [done EXCEPT !.i = rec.i + 1, !.pc = "gate"]
        ELSE IF rec.phase = "loop"
             THEN [done EXCEPT !.batch = <<>>, !.i = 0, !.pc = "next"]
             ELSE Return(done)

BeginRun_sharedMap(caller) ==
    [IdleRun EXCEPT !.pc = "count", !.inst = runSeq + 1, !.now = clock, !.caller = caller,
                    !.domainLastRequest =
                        [h \in Hosts |->
                           IF \E r \in Runs : runs[r].domainLastRequest[h] > 0
                           THEN CHOOSE t \in {runs[r].domainLastRequest[h] : r \in Runs} : t > 0
                           ELSE 0]]

\* checkPriceDrops lines 39-52, up to its first await.
BeginRun(caller) ==
    [IdleRun EXCEPT !.pc = "count", !.inst = runSeq + 1, !.now = clock, !.caller = caller]

\* POST /admin/trigger-notify: triggerNotification calls checkPriceDrops.
triggerNotification(r) ==
    /\ runs[r].pc = "idle"
    /\ runSeq < MaxRunStarts
    /\ runSeq' = runSeq + 1
    /\ runs' = [runs EXCEPT ![r] = BeginRun("manual")]
    /\ UNCHANGED <<clock, store, reqs, requests, sent, seenLog, checks, events, transporter, notifierInterval, timers, scrape, parse, widget, page>>

\* checkPriceDrops lines 52-56: countDocuments(query), early return on 0.
CountDocuments(r) ==
    /\ runs[r].pc = "count"
    /\ LET totalCount == Cardinality({k \in Ids : Eligible(store[k], runs[r].now)})
       IN  runs' = [runs EXCEPT ![r] =
                      IF totalCount = 0 THEN Return(@) ELSE [@ EXCEPT !.pc = "find"]]
    /\ UNCHANGED <<clock, store, runSeq, reqs, requests, sent, seenLog, checks, events, transporter, notifierInterval, timers, scrape, parse, widget, page>>

\* checkPriceDrops line 67: the cursor over the eligible documents.
Find(r) ==
    /\ runs[r].pc = "find"
    /\ runs' = [runs EXCEPT ![r] =
                  [@ EXCEPT !.cursor = FindFrom(1, runs[r].now), !.pc = "next"]]
    /\ events' = events \cup
                  { [kind |-> "selected", inst |-> runs[r].inst, id |-> k, what |-> "cursor"] :
                      k \in {j \in Ids : Eligible(store[j], runs[r].now)} }
    /\ UNCHANGED <<clock, store, runSeq, reqs, requests, sent, seenLog, checks, transporter, notifierInterval, timers, scrape, parse, widget, page>>

batchFull_early(b) == Len(b) >= 1

\* checkPriceDrops line 74: `if (batch.length >= BATCH_SIZE)`.
batchFull(b) == Len(b) >= BATCH_SIZE

\* checkPriceDrops lines 70-94: one step of `for await`, the batch being
\* handed to processBatch when full, and the final batch after the loop.
CursorNext(r) ==
    /\ runs[r].pc = "next"
    /\ LET rec == runs[r]
       IN  runs' = [runs EXCEPT ![r] =
             IF rec.cursor # <<>>
             THEN LET b == Append(rec.batch, Head(rec.cursor))
                  IN  IF batchFull(b)
                      THEN [rec EXCEPT !.cursor = Tail(rec.cursor), !.batch = b,
                                       !.phase = "loop", !.i = 1, !.pc = "gate"]
                      ELSE [rec EXCEPT !.cursor = Tail(rec.cursor), !.batch = b]
             ELSE IF rec.batch # <<>>
                  THEN [rec EXCEPT !.phase = "final", !.i = 1, !.pc = "gate"]
                  ELSE Return(rec)]
    /\ UNCHANGED <<clock, store, runSeq, reqs, requests, sent, seenLog, checks, events, transporter, notifierInterval, timers, scrape, parse, widget, page>>

\* The call fetchCurrentPrice(sub.product.url) being issued (line 134).
\* Line 132, `await randomDelay()`, awaits the number randomDelay returns
\* (utils.ts 42-44), not a timer: the function resumes in the same turn of
\* the event loop, so no time passes between the gate and the call.  The
\* same holds for line 83 between two batches.
Issue(rec, sub) ==
    requests \cup {[inst |-> rec.inst, now |-> rec.now, id |-> sub.id,
                    host |-> extractDomain(sub.doc.product.url), at |-> clock]}

\* processBatch lines 119-134: the limiter's gate for item i.
Gate(r) ==
    /\ runs[r].pc = "gate"
    /\ LET rec    == runs[r]
           sub    == rec.batch[rec.i]
           domain == extractDomain(sub.doc.product.url)
           lastRequest == rec.domainLastRequest[domain]
           timeSinceLastRequest == clock - lastRequest
       IN  IF mustWait(timeSinceLastRequest)
           THEN /\ runs' = [runs EXCEPT ![r] =
                      [rec EXCEPT !.sub = sub, !.pc = "wait",
                                  !.wakeAt = clock + (DOMAIN_DELAY_MS - timeSinceLastRequest)]]
                /\ UNCHANGED requests
           ELSE /\ runs' = [runs EXCEPT ![r] = [rec EXCEPT !.sub = sub, !.pc = "fetch"]]
                /\ requests' = Issue(rec, sub)
    /\ UNCHANGED <<clock, store, runSeq, reqs, sent, seenLog, checks, events, transporter, notifierInterval, timers, scrape, parse, widget, page>>

\* processBatch line 128: the setTimeout of the limiter has fired.
Wake(r) ==
    /\ runs[r].pc = "wait"
    /\ clock >= runs[r].wakeAt
    /\ runs' = [runs EXCEPT ![r] = [@ EXCEPT !.pc = "fetch", !.wakeAt = 0]]
    /\ requests' = Issue(runs[r], runs[r].sub)
    /\ UNCHANGED <<clock, store, runSeq, reqs, sent, seenLog, checks, events, transporter, notifierInterval, timers, scrape, parse, widget, page>>

\* scraper.service.ts fetchCurrentPrice: null for an invalid URL or a
\* failed fetch, else the number parsed from the page's price text.
fetchCurrentPrice(url, outcome) ==
    IF ~isValidUrl(url) THEN None
    ELSE IF outcome = "fail" THEN None
    ELSE stripAndParse(PageText(outcome))

\* processBatch lines 134-139: fetchCurrentPrice has returned; the
\* limiter's map and the in-memory lastCheckedAt are set, save() is called.
FetchDone(r) ==
    /\ runs[r].pc = "fetch"
    /\ \E outcome \in PageOutcomes :
         LET rec    == runs[r]
             domain == extractDomain(rec.sub.doc.product.url)
         IN  runs' = [runs EXCEPT ![r] =
               [rec EXCEPT !.currentPrice = fetchCurrentPrice(rec.sub.doc.product.url, outcome),
                           !.domainLastRequest[domain] = clock,
                           !.sub.doc = markChecked(rec.sub.doc, clock),
                           !.pc = "saveChecked"]]
    /\ UNCHANGED <<clock, store, runSeq, reqs, requests, sent, seenLog, checks, events, transporter, notifierInterval, timers, scrape, parse, widget, page>>

updateOne_truncates(coll, id, updated) == SubSeq([coll EXCEPT ![id] = updated], 1, id)

\* sub.save() on a loaded document: an update of that one document of the
\* collection, found by its _id.
updateOne(coll, id, updated) == [coll EXCEPT ![id] = updated]

saveChecked_skipped(stored, doc) == stored

saveChecked_stampsNotified(stored, doc) ==
    [stored EXCEPT !.lastCheckedAt = doc.lastCheckedAt,
                   !.lastNotifiedAt = doc.lastCheckedAt]

\* processBatch line 139: save() after line 138 writes the one modified
\* path, lastCheckedAt.
saveChecked(stored, doc) == [stored EXCEPT !.lastCheckedAt = doc.lastCheckedAt]

\* processBatch lines 139-154: the save of lastCheckedAt completes (only
\* the modified path is written), then the comparison up to the next save.
SaveChecked(r) ==
    /\ runs[r].pc = "saveChecked"
    /\ LET rec           == runs[r]
           sub           == rec.sub
           claimedPrice  == parsePriceString(sub.doc.product.price)
           lastSeenPrice == Coalesce(sub.doc.product.lastSeenPrice, claimedPrice)
           counted       == [rec EXCEPT !.checked = rec.checked + 1,
                                        !.lastSeenPrice = lastSeenPrice]
       IN  /\ store' = updateOne(store, sub.id, saveChecked(store[sub.id], sub.doc))
           /\ checks' = checks \cup
                 {[ inst           |-> rec.inst,
                    id             |-> sub.id,
                    currentPrice   |-> rec.currentPrice,
                    lastSeenPrice  |-> lastSeenPrice,
                    checkedAt      |-> sub.doc.lastCheckedAt,
                    notifiedBefore |-> store[sub.id].lastNotifiedAt ]}
           /\ runs' = [runs EXCEPT ![r] =
                 IF notComparable(rec.currentPrice, lastSeenPrice)
                 THEN NextItem(counted)
                 ELSE IF priceChanged(rec.currentPrice, lastSeenPrice)
                      THEN [counted EXCEPT !.sub.doc = setLastSeen(sub.doc, rec.currentPrice),
                                           !.pc = "saveSeen"]
                      ELSE NextItem(counted)]
    /\ UNCHANGED <<clock, runSeq, reqs, requests, sent, seenLog, events, transporter, notifierInterval, timers, scrape, parse, widget, page>>

saveSeen_lost(stored, doc) == stored

\* processBatch line 153: save() after line 152 writes the one modified
\* path, product.lastSeenPrice.
saveSeen(stored, doc) ==
    [stored EXCEPT !.product.lastSeenPrice = doc.product.lastSeenPrice]

\* processBatch lines 153-166: the save of lastSeenPrice completes, then
\* the drop test and the call of sendPriceDropEmail.
SaveSeen(r) ==
    /\ runs[r].pc = "saveSeen"
    /\ LET rec    == runs[r]
           sub    == rec.sub
           before == store[sub.id].product.lastSeenPrice
           after  == sub.doc.product.lastSeenPrice
       IN  /\ store' = updateOne(store, sub.id, saveSeen(store[sub.id], sub.doc))
           /\ seenLog' = IF before # after
                         THEN seenLog \cup {[inst |-> rec.inst, id |-> sub.id,
                                           from |-> before, to |-> after]}
                         ELSE seenLog
           /\ IF priceDropped(rec.currentPrice, rec.lastSeenPrice)
              THEN /\ sent' = sent \cup
                              {[ inst      |-> rec.inst,
                                 id        |-> sub.id,
                                 data      |-> PriceDropEmail(sub.doc, rec.lastSeenPrice,
                                                              rec.currentPrice),
                                 persisted |-> before ]}
                   /\ runs' = [runs EXCEPT ![r] = [rec EXCEPT !.pc = "send"]]
              ELSE /\ sent' = sent
                   /\ runs' = [runs EXCEPT ![r] = NextItem(rec)]
    /\ UNCHANGED <<clock, runSeq, reqs, requests, checks, events, transporter, notifierInterval, timers, scrape, parse, widget, page>>

\* What became of one call of sendPriceDropEmail.
Delivery(sendMailOk) ==
    IF ~transporter THEN "disabled" ELSE IF sendMailOk THEN "sent" ELSE "failed"

\* part_007 sendPriceDropEmail lines 53-108: null when the transport is
\* not set, the preview URL when sendMail resolves, null when it rejects
\* (the rejection is caught inside the function).
sendPriceDropEmail(sendMailOk) ==
    IF Delivery(sendMailOk) = "sent" THEN Some("previewUrl") ELSE None

\* processBatch line 169: sub.lastNotifiedAt = new Date(), whatever
\* sendPriceDropEmail returned.
markNotified(doc, preview, at) == [doc EXCEPT !.lastNotifiedAt = Some(at)]

\* processBatch lines 160-170: sendPriceDropEmail has returned (it never
\* throws); lastNotifiedAt is set in memory and save() is called.
SendDone(r) ==
    /\ runs[r].pc = "send"
    /\ \E sendMailOk \in BOOLEAN :
         LET rec == runs[r]
         IN  /\ runs' = [runs EXCEPT ![r] =
                   [rec EXCEPT !.sub.doc = markNotified(rec.sub.doc,
                                                        sendPriceDropEmail(sendMailOk), clock),
                               !.pc = "saveNotified"]]
             /\ events' = events \cup {[kind |-> "mail", inst |-> rec.inst,
                                         id |-> rec.sub.id, what |-> Delivery(sendMailOk)]}
    /\ UNCHANGED <<clock, store, runSeq, reqs, requests, sent, seenLog, checks, transporter, notifierInterval, timers, scrape, parse, widget, page>>

\* processBatch lines 170-173: the save of lastNotifiedAt completes.
SaveNotified(r) ==
    /\ runs[r].pc = "saveNotified"
    /\ LET rec == runs[r]
       IN  /\ store' = [store EXCEPT ![rec.sub.id].lastNotifiedAt = rec.sub.doc.lastNotifiedAt]
           /\ runs' = [runs EXCEPT ![r] = NextItem([rec EXCEPT !.notified = rec.notified + 1])]
           /\ events' = events \cup {[kind |-> "notified", inst |-> rec.inst,
                                       id |-> rec.sub.id, what |-> "lastNotifiedAt"]}
    /\ UNCHANGED <<clock, runSeq, reqs, requests, sent, seenLog, checks, transporter, notifierInterval, timers, scrape, parse, widget, page>>

Caught_abortsBatch(rec) ==
    [rec EXCEPT !.sub = NoSub, !.currentPrice = None, !.lastSeenPrice = None,
                !.batch = <<>>, !.i = 0, !.pc = "next"]

\* processBatch lines 174-176: the catch of the loop body logs the error;
\* the loop goes on with the next item.
Caught(rec) == NextItem(rec)

\* `await sub.save()` rejects (a write to the store fails) at one of the
\* three saves of processBatch (lines 139, 153, 170): nothing is written,
\* the rest of the loop body is skipped.
SaveFails(r) ==
    /\ runs[r].pc \in {"saveChecked", "saveSeen", "saveNotified"}
    /\ LET rec == runs[r]
       IN  /\ runs' = [runs EXCEPT ![r] = Caught(rec)]
           /\ events' = events \cup
                 {[kind |-> "saveFailed", inst |-> rec.inst, id |-> rec.sub.id,
                   what |-> CASE rec.pc = "saveChecked" -> "lastCheckedAt"
                              [] rec.pc = "saveSeen" -> "lastSeenPrice"
                              [] OTHER -> "lastNotifiedAt"]}
    /\ UNCHANGED <<clock, store, runSeq, reqs, requests, sent, seenLog, checks, transporter, notifierInterval, timers, scrape, parse, widget, page>>

\* Time passes, within the instants I.
Advance(I) ==
    /\ \E d \in Durations :
         /\ clock + d \in I
         /\ clock' = clock + d
    /\ UNCHANGED <<store, runs, runSeq, reqs, requests, sent, seenLog, checks, events, transporter, notifierInterval, timers, scrape, parse, widget, page>>

Tick == Advance(Instants)

\* Time passes, within the seconds that follow the start.
TickShort == Advance({t \in Instants : t < T0 + MIN_CHECK_INTERVAL})

----------------------------------------------------------------------------
(* Specification of the scheduler *)

IdleReq == [pc |-> "idle"]

\* No call of the scraper is in progress, none has returned.
IdleScrape ==
    [ pc |-> "idle", fn |-> "none", url |-> U_X, static |-> "none", rendered |-> FALSE,
      threw |-> FALSE, product |-> None, price |-> None,
      extracted |-> None, invalid |-> FALSE, renderResult |-> None,
      titles |-> None, named |-> None, namedBy |-> "none" ]

\* parsePriceString has not been called.
NoParse == [called |-> FALSE, priceStr |-> <<>>, value |-> None, observed |-> None]

\* No setInterval call has been made yet.
NoTimers == [issued |-> 0, active |-> {}]

\* The floating widget before initFloating has made it. The style is the one
\* initFloating gives the panel (display none, opacity 0, moved down), isOpen
\* is false; now is the page's time in ms and timeouts the pending setTimeout
\* callbacks.
NoWidget ==
    [ made |-> FALSE, isOpen |-> FALSE,
      display |-> "none", opacity |-> "0", transform |-> "translateY(20px)",
      now |-> 0, issued |-> 0, timeouts |-> {} ]

\* The host page before the userscript has run: no widget global, no floating
\* button, no iframe, no inject() call made.
BlankPage ==
    [ trustedTypes |-> FALSE, PriceDropWidget |-> FALSE, button |-> FALSE,
      scripts |-> 0, iframes |-> 0,
      pc |-> "idle", injects |-> 0, initCalls |-> 0, tried |-> <<>>,
      returned |-> "none" ]

InitWith(seed) ==
    /\ clock = T0
    /\ store = seed
    /\ runs = [r \in Runs |-> IdleRun]
    /\ runSeq = 0
    /\ reqs = [q \in Reqs |-> IdleReq]
    /\ requests = {}
    /\ sent = {}
    /\ seenLog = {}
    /\ checks = {}
    /\ events = {}
    /\ transporter \in BOOLEAN
    /\ notifierInterval = None
    /\ timers = NoTimers
    /\ scrape = IdleScrape
    /\ parse = NoParse
    /\ widget = NoWidget
    /\ page = BlankPage

\* The scheduler with runs that do not overlap: one invocation slot.
Init == InitWith(SeedStore)

Next ==
    \/ Tick
    \/ triggerNotification(1)
    \/ CountDocuments(1)
    \/ Find(1)
    \/ CursorNext(1)
    \/ Gate(1)
    \/ Wake(1)
    \/ FetchDone(1)
    \/ SaveChecked(1)
    \/ SaveSeen(1)
    \/ SendDone(1)
    \/ SaveNotified(1)

Spec == Init /\ [][Next]_vars

\* The same scheduler on a store whose writes can fail, during the
\* seconds that follow the start.
NextFaults ==
    \/ TickShort
    \/ triggerNotification(1)
    \/ CountDocuments(1)
    \/ Find(1)
    \/ CursorNext(1)
    \/ Gate(1)
    \/ Wake(1)
    \/ FetchDone(1)
    \/ SaveChecked(1)
    \/ SaveSeen(1)
    \/ SendDone(1)
    \/ SaveNotified(1)
    \/ SaveFails(1)

\* Its store: the third subscription has a claimed price that does not
\* parse (no baseline) and a URL that can be fetched.
SeedFaults ==
    << SeedStore[1], SeedStore[2],
       NewSubscription("alice@x.io", [name |-> "Lamp", price |-> T_Rs500, url |-> U_C], T0) >>

InitFaults == InitWith(SeedFaults)

SpecFaults == InitFaults /\ [][NextFaults]_vars

\* The scheduler on a store in which two consecutive subscriptions have a
\* URL that cannot be parsed, during the seconds that follow the start.
SeedUnknown ==
    << NewSubscription("alice@x.io", [name |-> "Lamp", price |-> T_100, url |-> U_X], T0),
       NewSubscription("bob@x.io", [name |-> "Desk", price |-> T_100, url |-> U_Y], T0),
       SeedStore[1] >>

InitUnknown == InitWith(SeedUnknown)

NextUnknown ==
    \/ TickShort
    \/ triggerNotification(1)
    \/ CountDocuments(1)
    \/ Find(1)
    \/ CursorNext(1)
    \/ Gate(1)
    \/ Wake(1)
    \/ FetchDone(1)
    \/ SaveChecked(1)
    \/ SaveSeen(1)
    \/ SendDone(1)
    \/ SaveNotified(1)

SpecUnknown == InitUnknown /\ [][NextUnknown]_vars

\* The scheduler with overlapping runs (the manual trigger and the timer
\* hold no lock): every slot, explored on the two subscriptions of the
\* same host during the first seconds.  A run takes the lowest free slot.
InitOverlap == InitWith(SubSeq(SeedStore, 1, 2))

LowestFree(r) == \A r2 \in Runs : r2 < r => runs[r2].pc # "idle"

NextOverlap ==
    \/ TickShort
    \/ \E r \in Runs : LowestFree(r) /\ triggerNotification(r)
    \/ \E r \in Runs : CountDocuments(r)
    \/ \E r \in Runs : Find(r)
    \/ \E r \in Runs : CursorNext(r)
    \/ \E r \in Runs : Gate(r)
    \/ \E r \in Runs : Wake(r)
    \/ \E r \in Runs : FetchDone(r)
    \/ \E r \in Runs : SaveChecked(r)
    \/ \E r \in Runs : SaveSeen(r)
    \/ \E r \in Runs : SendDone(r)
    \/ \E r \in Runs : SaveNotified(r)

SpecOverlap == InitOverlap /\ [][NextOverlap]_vars

\* Two overlapping runs over one subscription: each run has its own
\* limiter map, and with a single item per run no run waits in the limiter.
InitPair == InitWith(SubSeq(SeedStore, 1, 1))

NextPair ==
    \/ TickShort
    \/ \E r \in Runs : LowestFree(r) /\ triggerNotification(r)
    \/ \E r \in Runs : CountDocuments(r)
    \/ \E r \in Runs : Find(r)
    \/ \E r \in Runs : CursorNext(r)
    \/ \E r \in Runs : Gate(r)
    \/ \E r \in Runs : FetchDone(r)
    \/ \E r \in Runs : SaveChecked(r)
    \/ \E r \in Runs : SaveSeen(r)
    \/ \E r \in Runs : SendDone(r)
    \/ \E r \in Runs : SaveNotified(r)

SpecPair == InitPair /\ [][NextPair]_vars

----------------------------------------------------------------------------
(* POST /subscribe-price-drop *)

Emails == {"alice@x.io", "bob@x.io"}

\* Request bodies that pass the route's validators.
Products ==
    { [name |-> "Kettle", price |-> T_100, url |-> U_A],
      [name |-> "Toaster", price |-> T_100, url |-> U_B],
      [name |-> "Lamp", price |-> T_Rs500, url |-> U_X],
      [name |-> "Voucher", price |-> T_minus5, url |-> U_C] }

\* Size of the collection at which no further request is accepted by the model.
MaxSubs == 3

InFlight == {q \in Reqs : reqs[q].pc # "idle"}

\* part_009 subscribe lines 15-52: a validated request arrives and the
\* handler waits its random delay.
subscribe(q) ==
    /\ reqs[q].pc = "idle"
    /\ Len(store) + Cardinality(InFlight) < MaxSubs
    /\ \E email \in Emails, product \in Products :
         reqs' = [reqs EXCEPT ![q] =
                    [pc |-> "findOne", email |-> email, product |-> product]]
    /\ UNCHANGED <<clock, store, runs, runSeq, requests, sent, seenLog, checks, events, transporter, notifierInterval, timers, scrape, parse, widget, page>>

\* part_009 subscribe lines 57-78: findOne({email, 'product.url'}) answers;
\* 409 when a document exists, else the simulated 500, else the document
\* is built and save() is called.
FindOne(q) ==
    /\ reqs[q].pc = "findOne"
    /\ LET exists == \E k \in Ids : /\ store[k].email = reqs[q].email
                                   /\ store[k].product.url = reqs[q].product.url
       IN  IF exists
           THEN reqs' = [reqs EXCEPT ![q] = [pc |-> "idle", status |-> 409]]
           ELSE \E simulated \in BOOLEAN :
                  reqs' = [reqs EXCEPT ![q] =
                             IF simulated THEN [pc |-> "idle", status |-> 500]
                             ELSE [@ EXCEPT !.pc = "save"]]
    /\ UNCHANGED <<clock, store, runs, runSeq, requests, sent, seenLog, checks, events, transporter, notifierInterval, timers, scrape, parse, widget, page>>

\* part_009 subscribe lines 87-103: subscription.save() inserts the
\* document (the index on email + product.url is not unique); 200.
SaveNew(q) ==
    /\ reqs[q].pc = "save"
    /\ store' = Append(store, NewSubscription(reqs[q].email, reqs[q].product, clock))
    /\ reqs' = [reqs EXCEPT ![q] = [pc |-> "idle", status |-> 200]]
    /\ UNCHANGED <<clock, runs, runSeq, requests, sent, seenLog, checks, events, transporter, notifierInterval, timers, scrape, parse, widget, page>>

InitSubscribe == InitWith(<<>>)

NextSubscribe ==
    \/ Tick
    \/ \E q \in Reqs : subscribe(q)
    \/ \E q \in Reqs : FindOne(q)
    \/ \E q \in Reqs : SaveNew(q)

SpecSubscribe == InitSubscribe /\ [][NextSubscribe]_vars

\* Subscribe requests handled while a run is in flight: one invocation
\* slot, one request at a time, a collection that starts with one document.
InitMixed == InitWith(SubSeq(SeedStore, 1, 1))

NextMixed ==
    \/ triggerNotification(1)
    \/ CountDocuments(1)
    \/ Find(1)
    \/ CursorNext(1)
    \/ Gate(1)
    \/ FetchDone(1)
    \/ SaveChecked(1)
    \/ SaveSeen(1)
    \/ SendDone(1)
    \/ SaveNotified(1)
    \/ subscribe(1)
    \/ FindOne(1)
    \/ SaveNew(1)

SpecMixed == InitMixed /\ [][NextMixed]_vars

----------------------------------------------------------------------------
(* The periodic trigger: startPeriodicChecks / stopPeriodicChecks *)

NOTIFIER_INTERVAL == 10 * 60 * 1000

\* Number of calls of startPeriodicChecks and stopPeriodicChecks in one behaviour.
MaxTimerCalls == 3

\* Number of checkPriceDrops invocations in one behaviour of the trigger.
MaxTimerRuns == 3

\* Number of intervals the clock goes through.
MaxIntervals == 2

\* The calls of startPeriodicChecks and stopPeriodicChecks made so far.
TimerCalls == {e \in events : e.kind \in {"start", "stop"}}

CallEvent(kind, handle, what) ==
    [kind |-> kind, inst |-> Cardinality(TimerCalls) + 1, id |-> handle, what |-> what]

FreeSlot(r) == runs[r].pc = "idle" /\ LowestFree(r)

alreadyRunning_never(interval) == FALSE

\* startPeriodicChecks line 187: if (notifierInterval)
alreadyRunning(interval) == interval # None

clearInterval_leaves(active, handle) == active

\* stopPeriodicChecks line 208: clearInterval(notifierInterval)
clearInterval(active, handle) == {t \in active : t.id # handle}

onPeriodicRejection_crash(tm) == [tm EXCEPT !.active = {}]

\* startPeriodicChecks lines 195 and 199: .catch(err => console.error(...)).
\* The rejection is handled; the timers of the event loop are untouched.
onPeriodicRejection(tm) == tm

\* startPeriodicChecks lines 186-201.
startPeriodicChecks ==
    /\ Cardinality(TimerCalls) < MaxTimerCalls
    /\ IF alreadyRunning(notifierInterval)
       THEN /\ events' = events \cup {CallEvent("start", 0, "already")}
            /\ UNCHANGED <<runs, runSeq, notifierInterval, timers, scrape, parse, widget, page>>
       ELSE /\ runSeq < MaxTimerRuns
            /\ \E r \in Runs : FreeSlot(r) /\ runs' = [runs EXCEPT ![r] = BeginRun("initial")]
            /\ runSeq' = runSeq + 1
            /\ LET handle == timers.issued + 1
               IN  /\ timers' = [issued |-> handle,
                                 active |-> timers.active \cup
                                     {[id |-> handle, due |-> clock + NOTIFIER_INTERVAL]}]
                   /\ notifierInterval' = Some(handle)
                   /\ events' = events \cup {CallEvent("start", handle, "started")}
    /\ UNCHANGED <<clock, store, reqs, requests, sent, seenLog, checks, transporter, scrape, parse, widget, page>>

\* stopPeriodicChecks lines 206-212.
stopPeriodicChecks ==
    /\ Cardinality(TimerCalls) < MaxTimerCalls
    /\ IF notifierInterval # None
       THEN /\ timers' = [timers EXCEPT
                            !.active = clearInterval(@, Get(notifierInterval))]
            /\ notifierInterval' = None
            /\ events' = events \cup {CallEvent("stop", Get(notifierInterval), "stopped")}
       ELSE /\ events' = events \cup {CallEvent("stop", 0, "nothing")}
            /\ UNCHANGED <<notifierInterval, timers, scrape, parse, widget, page>>
    /\ UNCHANGED <<clock, store, runs, runSeq, reqs, requests, sent, seenLog, checks, transporter, scrape, parse, widget, page>>

\* The callback of setInterval (lines 198-200) runs: an active timer has
\* come due; it calls checkPriceDrops and is due again one interval later.
TimerFire ==
    /\ runSeq < MaxTimerRuns
    /\ \E t \in timers.active :
         /\ clock >= t.due
         /\ \E r \in Runs : FreeSlot(r) /\ runs' = [runs EXCEPT ![r] = BeginRun("timer")]
         /\ timers' = [timers EXCEPT !.active =
                          (@ \ {t}) \cup {[id |-> t.id, due |-> clock + NOTIFIER_INTERVAL]}]
         /\ events' = events \cup
                       {[kind |-> "fired", inst |-> runSeq + 1, id |-> t.id, what |-> "timer"]}
    /\ runSeq' = runSeq + 1
    /\ UNCHANGED <<clock, store, reqs, requests, sent, seenLog, checks, transporter, notifierInterval, scrape, parse, widget, page>>

\* checkPriceDrops lines 98-101: `throw error` out of the catch; the
\* manual trigger (part_008 lines 288-291) answers 500 server_error.
Rejected(rec) ==
    [IdleRun EXCEPT !.caller = rec.caller,
                    !.rejected = TRUE,
                    !.response = IF rec.caller = "manual" THEN 500 ELSE 0]

\* The store is unreachable: countDocuments, or the cursor, rejects
\* (checkPriceDrops lines 52, 67-70); the run rejects to its caller.
RunFails(r) ==
    /\ runs[r].pc \in {"count", "find", "next"}
    /\ runs' = [runs EXCEPT ![r] = Rejected(@)]
    /\ timers' = IF runs[r].caller \in {"initial", "timer"}
                 THEN onPeriodicRejection(timers) ELSE timers
    /\ events' = events \cup {[kind |-> "rejected", inst |-> runs[r].inst, id |-> 0,
                                what |-> runs[r].caller]}
    /\ UNCHANGED <<clock, store, runSeq, reqs, requests, sent, seenLog, checks, transporter, notifierInterval, scrape, parse, widget, page>>

\* One interval passes.
TickInterval ==
    /\ clock + NOTIFIER_INTERVAL <= T0 + MaxIntervals * NOTIFIER_INTERVAL
    /\ clock' = clock + NOTIFIER_INTERVAL
    /\ UNCHANGED <<store, runs, runSeq, reqs, requests, sent, seenLog, checks, events, transporter, notifierInterval, timers, scrape, parse, widget, page>>

\* The server with its periodic trigger, the manual trigger and a store
\* that can be unreachable.  The collection is empty: a run ends at
\* countDocuments, by `return { checked: 0, notified: 0 }` or by a rejection.
InitTimer == InitWith(<<>>)

NextTimer ==
    \/ TickInterval
    \/ startPeriodicChecks
    \/ stopPeriodicChecks
    \/ TimerFire
    \/ \E r \in Runs : FreeSlot(r) /\ triggerNotification(r)
    \/ \E r \in Runs : RunFails(r)
    \/ \E r \in Runs : CountDocuments(r)

SpecTimer == InitTimer /\ [][NextTimer]_vars

----------------------------------------------------------------------------
(* scraper.service.ts: scrapeProduct, scrapeWithPuppeteer, fetchCurrentPrice *)

U_Z == [valid |-> TRUE, host |-> "www.amazon.com", path |-> "/dp/1"]

U_E == [valid |-> TRUE, host |-> "www.ebay.com", path |-> "/itm/1"]

ScrapeUrls == {U_A, U_C, U_Z, U_E, U_X}

needsPuppeteerFirst_never(url) == FALSE

\* hostname.includes('amazon') || hostname.includes('ebay')
needsPuppeteerFirst(url) == url.host \in {"www.amazon.com", "www.ebay.com"}

T_unknown == <<"u", "n", "k", "n", "o", "w", "n">>

T_zero == <<"$", "0">>

T_0_00 == <<"$", "0", ".", "0", "0">>

\* String.prototype.toLowerCase, startsWith, includes and trim, on texts.
UpperCase ==
    <<"A", "B", "C", "D", "E", "F", "G", "H", "I", "J", "K", "L", "M",
      "N", "O", "P", "Q", "R", "S", "T", "U", "V", "W", "X", "Y", "Z">>

LowerCase ==
    <<"a", "b", "c", "d", "e", "f", "g", "h", "i", "j", "k", "l", "m",
      "n", "o", "p", "q", "r", "s", "t", "u", "v", "w", "x", "y", "z">>

toLowerCase(s) ==
    [i \in 1..Len(s) |->
        IF \E j \in 1..26 : UpperCase[j] = s[i]
        THEN LowerCase[CHOOSE j \in 1..26 : UpperCase[j] = s[i]]
        ELSE s[i]]

startsWith(s, p) == Len(p) <= Len(s) /\ SubSeq(s, 1, Len(p)) = p

includes(s, p) ==
    \E i \in 1..(Len(s) - Len(p) + 1) : SubSeq(s, i, i + Len(p) - 1) = p

RECURSIVE trimStart(_)
trimStart(s) == IF s # <<>> /\ Head(s) = " " THEN trimStart(Tail(s)) ELSE s

RECURSIVE trimEnd(_)
trimEnd(s) ==
    IF s # <<>> /\ s[Len(s)] = " " THEN trimEnd(SubSeq(s, 1, Len(s) - 1)) ELSE s

trim(s) == trimEnd(trimStart(s))

\* A product name: its text, or the URL itself (`|| url`).
NameOf(text) == [text |-> text, isUrl |-> FALSE]

UrlAsName == [text |-> <<>>, isUrl |-> TRUE]

\* "Acme Kettle 2L Steel"
N_Kettle ==
    NameOf(<<"A", "c", "m", "e", " ", "K", "e", "t", "t", "l", "e", " ",
             "2", "L", " ", "S", "t", "e", "e", "l">>)

\* "Shop - Home"
N_Shop == NameOf(<<"S", "h", "o", "p", " ", "-", " ", "H", "o", "m", "e">>)

\* "Kettle"
N_Short == NameOf(<<"K", "e", "t", "t", "l", "e">>)

N_Empty == NameOf(<<>>)

\* "Amazon Echo Dot"
N_Echo ==
    NameOf(<<"A", "m", "a", "z", "o", "n", " ", "E",
             "c", "h", "o", " ", "D", "o", "t">>)

\* "Amazon.com"
N_Site == NameOf(<<"A", "m", "a", "z", "o", "n", ".", "c", "o", "m">>)

\* isInvalidExtraction lines 450-454.
genericNames ==
    { <<"a", "m", "a", "z", "o", "n", ".", "c", "o", "m">>,
      <<"a", "m", "a", "z", "o", "n">>,
      <<"e", "b", "a", "y", ".", "c", "o", "m">>,
      <<"e", "b", "a", "y">>,
      <<"s", "h", "o", "p">>,
      <<"s", "t", "o", "r", "e">>,
      <<"b", "u", "y">>,
      <<"p", "r", "o", "d", "u", "c", "t">>,
      <<"h", "o", "m", "e">>,
      <<"h", "o", "m", "e", "p", "a", "g", "e">>,
      <<"w", "e", "l", "c", "o", "m", "e">> }

\* The texts of the title sources of a document (<<>>: the element is
\* absent or empty): #productTitle, the eBay title selectors, og:title,
\* <title>, the first <h1> and the first <h2>.
TitleSources(amazonTitle, ebayTitle, ogTitle, titleTag, h1, h2) ==
    [ amazonTitle |-> amazonTitle, ebayTitle |-> ebayTitle, ogTitle |-> ogTitle,
      titleTag |-> titleTag, h1 |-> h1, h2 |-> h2 ]

\* A document whose only title source is its <title>.
TitleTag(name) == TitleSources(<<>>, <<>>, <<>>, name.text, <<>>, <<>>)

\* <title>Shop - Home</title> with <h1>Acme Kettle 2L Steel</h1>.
TitleAndHeading == TitleSources(<<>>, <<>>, <<>>, N_Shop.text, N_Kettle.text, <<>>)

\* #productTitle, og:title and <title> all present.
TitleOfListing == TitleSources(N_Kettle.text, <<>>, N_Echo.text, N_Site.text, <<>>, <<>>)

\* a || b || ... over texts: the first that is not empty, else ''.
RECURSIVE firstTruthy(_)
firstTruthy(texts) ==
    IF texts = <<>> THEN <<>>
    ELSE IF Head(texts) # <<>> THEN Head(texts) ELSE firstTruthy(Tail(texts))

\* .replace(/\s+/g, ' ')
RECURSIVE collapseSpaces(_)
collapseSpaces(t) ==
    IF Len(t) < 2 THEN t
    ELSE IF t[1] = " " /\ t[2] = " " THEN collapseSpaces(Tail(t))
    ELSE <<t[1]>> \o collapseSpaces(Tail(t))

\* extractFromHtml lines 300-318: the name, before `|| url`.
staticTitle(src) ==
    trim(collapseSpaces(firstTruthy(
        << trim(src.amazonTitle), trim(src.ebayTitle), src.ogTitle,
           trim(src.titleTag), trim(src.h1), trim(src.h2) >>)))

\* scrapeWithPuppeteer lines 539-554: the title read in the page.
renderedTitle(src) ==
    trim(firstTruthy(
        << src.amazonTitle, src.ebayTitle, src.ogTitle,
           firstTruthy(<<src.h1, src.h2>>), src.titleTag >>))

\* An HTML document, as what the title sources, the PRICE_SELECTORS and
\* the currency patterns find in it (<<>> is "nothing found").
HtmlOf(title, selected, token) == [title |-> title, selected |-> selected, token |-> token]

Pages ==
    { HtmlOf(TitleTag(N_Kettle), T_8999, <<>>),
      HtmlOf(TitleTag(N_Kettle), <<>>, T_100),
      HtmlOf(TitleTag(N_Kettle), <<>>, <<>>),
      HtmlOf(TitleTag(N_Kettle), T_zero, <<>>),
      HtmlOf(TitleTag(N_Shop), T_8999, <<>>),
      HtmlOf(TitleTag(N_Short), T_105, <<>>),
      HtmlOf(TitleTag(N_Empty), <<>>, <<>>),
      HtmlOf(TitleTag(N_Echo), T_8999, <<>>),
      HtmlOf(TitleTag(N_Site), T_8999, <<>>),
      HtmlOf(TitleTag(N_Kettle), T_0_00, <<>>),
      HtmlOf(TitleAndHeading, T_8999, <<>>),
      HtmlOf(TitleOfListing, T_8999, <<>>) }

\* What the static fetch gives: a rejection, an abort after 10 s, a
\* response that is not ok, or a document.
StaticOutcomes == {"networkError", "timeout", "httpError", "ok"}

\* What the browser gives: launch rejects (no browser), navigation or
\* evaluation rejects, or a document; and whether browser.close() resolves.
Renders ==
    [ kind    : {"launchFails", "navFails", "ok"},
      title   : {TitleTag(N_Kettle), TitleTag(N_Empty), TitleAndHeading},
      price   : {T_8999, T_105, T_unknown},
      closeOk : BOOLEAN ]

Product(name, price, url) == [name |-> name, price |-> price, url |-> url]

\* extractFromHtml lines 296-361.
extractFromHtml(html, url) ==
    LET title == staticTitle(html.title)
        name  == IF title # <<>> THEN NameOf(title) ELSE UrlAsName
        price == IF html.selected # <<>> THEN html.selected
                 ELSE IF html.token # <<>> THEN html.token ELSE T_unknown
    IN  Product(name, price, url)

\* isInvalidExtraction lines 427-465.
isInvalidExtraction(result, url) ==
    LET priceDigits == SelectSeq(result.price, LAMBDA c : c \in Digits)
        nameLen     == Len(trim(result.name.text))
        nameLower   == toLowerCase(result.name.text)
    IN  \/ result.name.text = <<>> \/ result.name.isUrl
        \/ result.price = T_unknown
        \/ priceDigits = <<>> \/ priceDigits = <<"0">>
        \/ nameLen < 10
        \/ \E generic \in genericNames :
              \/ nameLower = generic
              \/ includes(nameLower, generic \o <<" ">>)
              \/ startsWith(nameLower, generic \o <<" ", "-">>)

\* scrapeWithPuppeteer lines 470-603: the product read from the rendered
\* page, the fallback product from the catch; `finally` awaits
\* browser.close() when a browser was launched, and its rejection
\* replaces the returned value.
scrapeWithPuppeteer(url, render) ==
    LET fallback == Product(UrlAsName, T_unknown, url)
        title    == renderedTitle(render.title)
        read     == Product(IF title # <<>> THEN NameOf(title) ELSE UrlAsName,
                            render.price, url)
    IN  IF render.kind = "launchFails" THEN [threw |-> FALSE, product |-> Some(fallback)]
        ELSE IF ~render.closeOk THEN [threw |-> TRUE, product |-> None]
        ELSE IF render.kind = "navFails" THEN [threw |-> FALSE, product |-> Some(fallback)]
        ELSE [threw |-> FALSE, product |-> Some(read)]

\* fetchCurrentPrice lines 653-674: the price text found in the document.
priceStrOf(html) ==
    IF html.selected # <<>> THEN html.selected ELSE html.token

Done(rec) == [rec EXCEPT !.pc = "done"]

\* scrapeProduct lines 363-378 and fetchCurrentPrice lines 605-617: the
\* call, up to its first await.
ScrapeCall ==
    /\ scrape.pc \in {"idle", "done"}
    /\ \E fn \in {"scrapeProduct", "fetchCurrentPrice"}, url \in ScrapeUrls :
         LET rec == [IdleScrape EXCEPT !.fn = fn, !.url = url]
         IN  scrape' =
               IF ~isValidUrl(url)
               THEN IF fn = "scrapeProduct" THEN Done([rec EXCEPT !.threw = TRUE])
                                            ELSE Done(rec)
               ELSE IF needsPuppeteerFirst(url)
                    THEN [rec EXCEPT !.pc = "render", !.rendered = TRUE]
                    ELSE [rec EXCEPT !.pc = "static"]
    /\ UNCHANGED <<clock, store, runs, runSeq, reqs, requests, sent, seenLog, checks, events, transporter, notifierInterval, timers, parse, widget, page>>

\* The static fetch has settled: scrapeProduct lines 380-421,
\* fetchCurrentPrice lines 634-684.
StaticDone ==
    /\ scrape.pc = "static"
    /\ \E outcome \in StaticOutcomes, html \in Pages :
         scrape' =
           IF scrape.fn = "scrapeProduct"
           THEN IF outcome # "ok"
                THEN [scrape EXCEPT !.static = outcome, !.pc = "render", !.rendered = TRUE]
                ELSE LET result == extractFromHtml(html, scrape.url)
                         needsPuppeteer == isInvalidExtraction(result, scrape.url)
                         seen == [scrape EXCEPT !.extracted = Some(result),
                                                !.invalid = needsPuppeteer,
                                                !.titles = Some(html.title),
                                                !.named = Some(result.name),
                                                !.namedBy = "extractFromHtml"]
                     IN  IF needsPuppeteer
                         THEN [seen EXCEPT !.static = "invalid", !.pc = "renderInTry",
                                           !.rendered = TRUE]
                         ELSE Done([seen EXCEPT !.static = "ok", !.product = Some(result)])
           ELSE IF outcome # "ok"
                THEN Done([scrape EXCEPT !.static = outcome])
                ELSE IF priceStrOf(html) = <<>>
                     THEN Done([scrape EXCEPT !.static = "noPrice"])
                     ELSE Done([scrape EXCEPT !.static = "ok",
                                              !.price = stripAndParse(priceStrOf(html))])
    /\ UNCHANGED <<clock, store, runs, runSeq, reqs, requests, sent, seenLog, checks, events, transporter, notifierInterval, timers, parse, widget, page>>

\* scrapeWithPuppeteer has settled.  In scrapeProduct its rejection goes
\* to the catch of line 416 when the call was made inside the try (which
\* calls it once more), else to the caller; fetchCurrentPrice (lines
\* 619-631) catches it and parses the price of the product.
RenderDone ==
    /\ scrape.pc \in {"render", "renderInTry"}
    /\ \E render \in Renders :
         LET r == scrapeWithPuppeteer(scrape.url, render)
         IN  scrape' =
               IF scrape.fn = "scrapeProduct"
               THEN IF r.threw
                    THEN IF scrape.pc = "renderInTry" THEN [scrape EXCEPT !.pc = "render"]
                                                      ELSE Done([scrape EXCEPT !.threw = TRUE])
                    ELSE Done([scrape EXCEPT
                                 !.product = r.product,
                                 !.renderResult = r.product,
                                 !.titles = IF render.kind = "ok" THEN Some(render.title) ELSE @,
                                 !.named = IF render.kind = "ok"
                                           THEN Some(Get(r.product).name) ELSE @,
                                 !.namedBy = IF render.kind = "ok"
                                             THEN "scrapeWithPuppeteer" ELSE @])
               ELSE IF r.threw \/ Get(r.product).price = T_unknown
                    THEN Done(scrape)
                    ELSE Done([scrape EXCEPT !.price = stripAndParse(Get(r.product).price)])
    /\ UNCHANGED <<clock, store, runs, runSeq, reqs, requests, sent, seenLog, checks, events, transporter, notifierInterval, timers, parse, widget, page>>

NextScrape ==
    \/ ScrapeCall
    \/ StaticDone
    \/ RenderDone

InitScrape == InitWith(<<>>)

SpecScrape == InitScrape /\ [][NextScrape]_vars

----------------------------------------------------------------------------
(* utils.ts parsePriceString *)

\* Longest price text of the exhaustive part of the inputs.
MaxTextLen == 3

PriceChars == {"$", "-", "1", "5", "0", ".", ",", " "}

RECURSIVE TextsOfLen(_)
TextsOfLen(n) ==
    IF n = 0 THEN {<<>>}
    ELSE {Append(t, c) : t \in TextsOfLen(n - 1), c \in PriceChars}

T_1299 == <<"$", "1", ",", "2", "9", "9", ".", "0", "0">>

T_EGP == <<"E", "G", "P", "7", "4", "9", ".", "2", "9">>

T_USD == <<"U", "S", "D", " ", "9", "9", ".", "9", "9">>

T_Free == <<"F", "r", "e", "e">>

PriceTexts ==
    UNION {TextsOfLen(n) : n \in 0..MaxTextLen}
      \cup {T_1299, T_EGP, T_USD, T_unknown, T_Free, T_Rs500, T_100}

\* A call of parsePriceString (the baseline of processBatch line 142), and
\* what the last lines of fetchCurrentPrice make of the same text.
ParseCall ==
    /\ \E priceStr \in PriceTexts :
         parse' = [called |-> TRUE, priceStr |-> priceStr,
                   value |-> parsePriceString(priceStr),
                   observed |-> stripAndParse(priceStr)]
    /\ UNCHANGED <<clock, store, runs, runSeq, reqs, requests, sent, seenLog, checks, events, transporter, notifierInterval, timers, scrape, widget, page>>

NextParse == ParseCall

InitParse == InitWith(<<>>)

SpecParse == InitParse /\ [][NextParse]_vars

----------------------------------------------------------------------------
(* The floating widget (widget/src/index.ts initFloating) and the userscript *)
(* that injects it (part_004 inject)                                         *)

\* Clicks on the two buttons of the widget that are explored.
MaxClicks == 3

\* The page's time, in ms, up to which the widget is followed.
MaxWidgetTime == 400

\* Calls of inject() that are explored.
MaxInjects == 2

\* A wait of the user between two clicks, in ms.
WidgetSteps == {100}

\* The panel as initFloating leaves it: made, closed, hidden.
NewWidget == [NoWidget EXCEPT !.made = TRUE]

\* setTimeout(fn, delay): one more pending callback, due delay ms from now.
setTimeout(w, fn, delay) ==
    [w EXCEPT !.issued = @ + 1,
              !.timeouts = @ \cup {[seq |-> w.issued + 1, fn |-> fn,
                                    due |-> w.now + delay]}]

\* The closing branch, shared by both handlers: fade out now, hide in 300 ms.
fadeOut(w) ==
    setTimeout([w EXCEPT !.opacity = "0", !.transform = "translateY(20px)"],
               "hide", 300)

\* button.onclick: toggle isOpen; opening shows the panel at once and fades
\* it in after 10 ms, closing fades it out and hides it after 300 ms.
buttonOnclick(w) ==
    LET t == [w EXCEPT !.isOpen = ~@]
    IN  IF t.isOpen
        THEN setTimeout([t EXCEPT !.display = "flex"], "show", 10)
        ELSE fadeOut(t)

\* closeBtn.onclick: isOpen becomes false, the panel fades out and is hidden
\* after 300 ms.
closeBtnOnclick(w) == fadeOut([w EXCEPT !.isOpen = FALSE])

\* The body of a timeout callback: the one set on opening makes the panel
\* opaque, the one set on closing sets display none. Neither reads isOpen.
runTimeout(w, t) ==
    LET rest == [w EXCEPT !.timeouts = @ \ {t}]
    IN  IF t.fn = "show"
        THEN [rest EXCEPT !.opacity = "1", !.transform = "translateY(0)"]
        ELSE [rest EXCEPT !.display = "none"]

\* The pending timeout the event loop runs next: the earliest due, the
\* earliest set among those due together.
NextDue(w) ==
    CHOOSE t \in w.timeouts :
        \A u \in w.timeouts :
            t.due < u.due \/ (t.due = u.due /\ t.seq <= u.seq)

\* The user clicks the floating button.
ButtonClick ==
    /\ widget.made
    /\ widget.issued < MaxClicks
    /\ widget' = buttonOnclick(widget)
    /\ UNCHANGED <<clock, store, runs, runSeq, reqs, requests, sent, seenLog, checks, events, transporter, notifierInterval, timers, scrape, parse, page>>

\* The user clicks the close button in the panel's header, which can be done
\* while the panel is displayed.
CloseClick ==
    /\ widget.made
    /\ widget.display = "flex"
    /\ widget.issued < MaxClicks
    /\ widget' = closeBtnOnclick(widget)
    /\ UNCHANGED <<clock, store, runs, runSeq, reqs, requests, sent, seenLog, checks, events, transporter, notifierInterval, timers, scrape, parse, page>>

\* A timeout that is due runs. No timeout is ever cleared.
TimeoutFires ==
    /\ widget.timeouts # {}
    /\ NextDue(widget).due <= widget.now
    /\ widget' = runTimeout(widget, NextDue(widget))
    /\ UNCHANGED <<clock, store, runs, runSeq, reqs, requests, sent, seenLog, checks, events, transporter, notifierInterval, timers, scrape, parse, page>>

\* Time passes on the page, by a wait of the user or until a timeout is due,
\* and no further than the next timeout that is due.
Elapse ==
    /\ widget.made
    /\ \E d \in WidgetSteps \cup {t.due - widget.now : t \in widget.timeouts} :
        /\ d > 0
        /\ widget.now + d <= MaxWidgetTime
        /\ \A t \in widget.timeouts : t.due >= widget.now + d
        /\ widget' = [widget EXCEPT !.now = @ + d]
    /\ UNCHANGED <<clock, store, runs, runSeq, reqs, requests, sent, seenLog, checks, events, transporter, notifierInterval, timers, scrape, parse, page>>

\* The three loading methods in the order inject() uses them.
Chain == <<"loadWidget", "loadWidgetViaGM", "loadIframeFallback">>

\* A call of initFloating on page p. It builds the button and the panel with
\* innerHTML assignments (index.ts 182, 255, 279) before it appends anything:
\* on a page whose Content-Security-Policy enforces Trusted Types the first
\* assignment throws and nothing is appended; elsewhere the button with id
\* pdn-floating-button and the panel are appended to the body.
initFloating(p, w) ==
    IF p.trustedTypes
    THEN [threw |-> TRUE, page |-> p, widget |-> w]
    ELSE [threw |-> FALSE, page |-> [p EXCEPT !.button = TRUE],
          widget |-> NewWidget]

\* loadIframeFallback: an iframe is appended to the body.
loadIframeFallback(p) == [p EXCEPT !.iframes = @ + 1]

\* inject() is called, up to its first await. With the floating button in
\* the document it returns at once; otherwise it reads the product and starts
\* the script-tag load (a script element is appended to the head). The
\* page's policy is met on the first call.
inject ==
    /\ page.pc = "idle"
    /\ page.injects < MaxInjects
    /\ \E tt \in BOOLEAN :
        /\ page.injects > 0 => tt = page.trustedTypes
        /\ page' =
            IF page.button
            THEN [page EXCEPT !.injects = @ + 1, !.initCalls = 0,
                              !.tried = <<>>, !.returned = "already"]
            ELSE [page EXCEPT !.trustedTypes = tt, !.injects = @ + 1,
                              !.initCalls = 0, !.tried = <<"loadWidget">>,
                              !.returned = "none", !.pc = "loadWidget",
                              !.scripts = @ + 1]
    /\ UNCHANGED <<clock, store, runs, runSeq, reqs, requests, sent, seenLog, checks, events, transporter, notifierInterval, timers, scrape, parse, widget>>

\* The script tag settles (onload or onerror) and inject() goes on: after
\* onload, with window.PriceDropWidget.initFloating visible to the userscript,
\* initFloating is called inside the try; if it returns inject() returns, if
\* it throws, or the load failed, or the global is not visible, inject() goes
\* on with the GM_xmlhttpRequest load.
LoadWidgetSettles ==
    /\ page.pc = "loadWidget"
    /\ \E outcome \in {"onload", "onerror"}, visible \in BOOLEAN :
        LET p1 == [page EXCEPT
                     !.PriceDropWidget = @ \/ (outcome = "onload" /\ visible)]
            called == outcome = "onload" /\ p1.PriceDropWidget
            r == initFloating([p1 EXCEPT !.initCalls = @ + 1], widget)
        IN  IF called /\ ~r.threw
            THEN /\ page' = [r.page EXCEPT !.pc = "idle",
                                           !.returned = "initFloating"]
                 /\ widget' = r.widget
            ELSE /\ page' = [(IF called THEN r.page ELSE p1) EXCEPT
                               !.pc = "loadWidgetViaGM",
                               !.tried = Append(@, "loadWidgetViaGM")]
                 /\ UNCHANGED widget
    /\ UNCHANGED <<clock, store, runs, runSeq, reqs, requests, sent, seenLog, checks, events, transporter, notifierInterval, timers, scrape, parse>>

\* The GM_xmlhttpRequest settles (status 200: the response is appended as an
\* inline script; another status or onerror: rejection) and inject() runs to
\* its end: initFloating is called as after the script tag; if it was not
\* called, or threw, loadIframeFallback appends the iframe.
GMSettles ==
    /\ page.pc = "loadWidgetViaGM"
    /\ \E outcome \in {"200", "404", "onerror"}, visible \in BOOLEAN :
        LET p1 == [page EXCEPT
                     !.PriceDropWidget = @ \/ (outcome = "200" /\ visible),
                     !.scripts = IF outcome = "200" THEN @ + 1 ELSE @]
            called == outcome = "200" /\ p1.PriceDropWidget
            r == initFloating([p1 EXCEPT !.initCalls = @ + 1], widget)
        IN  IF called /\ ~r.threw
            THEN /\ page' = [r.page EXCEPT !.pc = "idle",
                                           !.returned = "initFloating"]
                 /\ widget' = r.widget
            ELSE /\ page' = [loadIframeFallback(IF called THEN r.page ELSE p1)
                               EXCEPT !.pc = "idle",
                                      !.tried = Append(@, "loadIframeFallback"),
                                      !.returned = "iframe"]
                 /\ UNCHANGED widget
    /\ UNCHANGED <<clock, store, runs, runSeq, reqs, requests, sent, seenLog, checks, events, transporter, notifierInterval, timers, scrape, parse>>

\* The userscript on a product page and the user at the widget it injects.
NextPage ==
    \/ inject
    \/ LoadWidgetSettles
    \/ GMSettles
    \/ ButtonClick
    \/ CloseClick
    \/ TimeoutFires
    \/ Elapse

InitPage == InitWith(<<>>)

SpecPage == InitPage /\ [][NextPage]_vars

----------------------------------------------------------------------------
(* Properties of the scheduler *)

Range(f) == {f[j] : j \in 1..Len(f)}

\* The run that made the check c is still inside the processing of that item.
ItemOpen(c) == \E r \in Runs : runs[r].inst = c.inst /\ runs[r].sub.id = c.id

\* The run that made the check c has not yet reached the drop test (it
\* awaits the save of the new lastSeenPrice).
AwaitingSeenSave(c) ==
    \E r \in Runs : runs[r].inst = c.inst /\ runs[r].sub.id = c.id /\ runs[r].pc = "saveSeen"

Comparable(c) == c.currentPrice # None /\ c.lastSeenPrice # None

\* The calls of sendPriceDropEmail made by the check c.
SentBy(c) == {e \in sent : e.inst = c.inst /\ e.id = c.id}

\* c is the most recent check of its subscription.
Latest(c) == \A d \in checks : d.id = c.id => d.inst <= c.inst

\* C1 (Notify-iff-drop): for every check whose observed price and baseline
\* are both non-null and whose drop test has been reached,
\* sendPriceDropEmail was called if and only if the observed price is
\* strictly less than the baseline; and every call made carries a new
\* price strictly below its old price.
C1_NotifyIffDrop ==
    /\ \A c \in checks :
         (Comparable(c) /\ ~AwaitingSeenSave(c)) =>
            ((SentBy(c) # {}) <=> (Get(c.currentPrice) < Get(c.lastSeenPrice)))
    /\ \A e \in sent : e.data.newPrice < e.data.oldPrice

C1_Witness ==
    /\ \E c \in checks : Comparable(c) /\ Get(c.currentPrice) < Get(c.lastSeenPrice)
                         /\ SentBy(c) # {}
    /\ \E c \in checks : Comparable(c) /\ Get(c.currentPrice) = Get(c.lastSeenPrice)
                         /\ ~ItemOpen(c)
    /\ \E c \in checks : Comparable(c) /\ Get(c.currentPrice) > Get(c.lastSeenPrice)
                         /\ ~ItemOpen(c)

\* C2 (lastSeenPrice tracks the latest observation): once the most recent
\* check of a subscription, with both prices non-null, has saved, the
\* stored lastSeenPrice is the observed price whenever that differs from
\* the baseline; a rise makes no call of sendPriceDropEmail and leaves
\* lastNotifiedAt as it was before the check.
C2_TracksLatest ==
    \A c \in checks :
       (Comparable(c) /\ Latest(c) /\ ~AwaitingSeenSave(c)) =>
          /\ c.currentPrice # c.lastSeenPrice =>
                store[c.id].product.lastSeenPrice = c.currentPrice
          /\ Get(c.currentPrice) > Get(c.lastSeenPrice) =>
                /\ SentBy(c) = {}
                /\ store[c.id].lastNotifiedAt = c.notifiedBefore

C2_Witness ==
    \E c \in checks :
       /\ Comparable(c) /\ Latest(c) /\ ~ItemOpen(c)
       /\ Get(c.currentPrice) > Get(c.lastSeenPrice)
       /\ store[c.id].product.lastSeenPrice = c.currentPrice
       /\ c.notifiedBefore # None

\* C3 (end-to-end drop): once the most recent check of a subscription,
\* with baseline P and observed price C < P, is complete, exactly one call
\* of sendPriceDropEmail was made by it, carrying the subscriber's e-mail,
\* the product name and URL, oldPrice = P and newPrice = C; the stored
\* lastSeenPrice went from P to C, and lastNotifiedAt and lastCheckedAt
\* are set.
C3_EndToEndDrop ==
    \A c \in checks :
       (Comparable(c) /\ Latest(c) /\ ~ItemOpen(c)
          /\ Get(c.currentPrice) < Get(c.lastSeenPrice)) =>
          /\ Cardinality(SentBy(c)) = 1
          /\ \A e \in SentBy(c) :
                e.data = [ to          |-> store[c.id].email,
                           productName |-> store[c.id].product.name,
                           productUrl  |-> store[c.id].product.url,
                           oldPrice    |-> Get(c.lastSeenPrice),
                           newPrice    |-> Get(c.currentPrice) ]
          /\ \E l \in seenLog : /\ l.inst = c.inst /\ l.id = c.id
                                /\ l.from = c.lastSeenPrice /\ l.to = c.currentPrice
          /\ store[c.id].product.lastSeenPrice = c.currentPrice
          /\ store[c.id].lastCheckedAt = c.checkedAt
          /\ c.checkedAt # None
          /\ store[c.id].lastNotifiedAt # None
          /\ Get(store[c.id].lastNotifiedAt) >= Get(c.checkedAt)

C3_Witness ==
    \E c \in checks :
       /\ Comparable(c) /\ Latest(c) /\ ~ItemOpen(c)
       /\ c.lastSeenPrice = Some(10000) /\ c.currentPrice = Some(8999)
       /\ store[c.id].lastNotifiedAt # None

\* The documents a run holds in memory, as loaded by its cursor.
Loaded(r) == Range(runs[r].cursor) \cup Range(runs[r].batch)

\* C4 (cooldown selection): every document a run started at `now` has
\* selected had, when selected, lastCheckedAt unset or more than
\* MIN_CHECK_INTERVAL before `now`; and every fetch issued by a run
\* started at `now` is for a subscription whose earlier checks were all
\* stamped more than MIN_CHECK_INTERVAL before `now` (one checked exactly
\* MIN_CHECK_INTERVAL before `now`, or later, is not processed).
C4_Cooldown ==
    /\ \A r \in Runs : \A x \in Loaded(r) :
          \/ x.doc.lastCheckedAt = None
          \/ runs[r].now - Get(x.doc.lastCheckedAt) > MIN_CHECK_INTERVAL
    /\ \A e \in requests : \A c \in checks :
          (c.id = e.id /\ c.inst < e.inst) =>
             e.now - Get(c.checkedAt) > MIN_CHECK_INTERVAL

C4_Witness ==
    \E r \in Runs :
       /\ runs[r].pc = "fetch"
       /\ \E x \in Loaded(r) : x.doc.lastCheckedAt # None
       /\ \E e \in requests : \E c \in checks :
            e.inst = runs[r].inst /\ c.id = e.id /\ c.inst < e.inst
       /\ \E k \in Ids :
            /\ store[k].lastCheckedAt = Some(runs[r].now - MIN_CHECK_INTERVAL)
            /\ \A x \in Loaded(r) : x.id # k

\* C5 (lastCheckedAt on every evaluation): every fetch a run has issued
\* and got back is followed by a check whose lastCheckedAt is a time not
\* before the fetch was issued; the most recent check of a subscription
\* has that time persisted, whether or not a price was obtained, and the
\* subscription is then not eligible for a run starting within the cooldown.
C5_CheckedAlways ==
    /\ \A e \in requests :
         \/ \E r \in Runs : /\ runs[r].inst = e.inst /\ runs[r].sub.id = e.id
                            /\ runs[r].pc \in {"fetch", "saveChecked"}
         \/ \E c \in checks : /\ c.inst = e.inst /\ c.id = e.id
                              /\ c.checkedAt # None
                              /\ e.at <= Get(c.checkedAt)
                              /\ Get(c.checkedAt) <= clock
    /\ \A c \in checks :
         Latest(c) =>
            /\ store[c.id].lastCheckedAt = c.checkedAt
            /\ c.checkedAt # None
            /\ \A t \in Instants :
                  t <= Get(c.checkedAt) + MIN_CHECK_INTERVAL => ~Eligible(store[c.id], t)

C5_Witness ==
    /\ \E c \in checks : /\ c.currentPrice = None /\ ~isValidUrl(store[c.id].product.url)
                         /\ store[c.id].lastCheckedAt = c.checkedAt
    /\ \E c \in checks : /\ c.currentPrice = None /\ isValidUrl(store[c.id].product.url)
                         /\ store[c.id].lastCheckedAt = c.checkedAt

Abs(n) == IF n < 0 THEN 0 - n ELSE n

\* C6 (rate limiter spacing): two fetches issued by the same run to the
\* same hostname start at least DOMAIN_DELAY_MS apart, and a run waits in
\* the limiter only for a hostname it has already fetched from.
C6_Spacing ==
    /\ \A e1, e2 \in requests :
         (e1.inst = e2.inst /\ e1.host = e2.host /\ e1 # e2) =>
            Abs(e2.at - e1.at) >= DOMAIN_DELAY_MS
    /\ \A r \in Runs :
         runs[r].pc = "wait" =>
            \E e \in requests : /\ e.inst = runs[r].inst
                                /\ e.host = extractDomain(runs[r].sub.doc.product.url)

C6_Witness ==
    \E e1, e2 \in requests :
       /\ e1.inst = e2.inst /\ e1.host = e2.host /\ e1.id # e2.id
       /\ e2.at - e1.at = DOMAIN_DELAY_MS

----------------------------------------------------------------------------
(* Properties of the store under concurrent requests and overlapping runs *)

\* C7 (uniqueness): at most one subscription exists per (email,
\* product.url) pair, also when two subscribe requests for the same pair
\* are handled concurrently.
C7_Uniqueness ==
    \A k1, k2 \in Ids :
       (/\ store[k1].email = store[k2].email
        /\ store[k1].product.url = store[k2].product.url) => k1 = k2

\* C8 (no redundant re-check): no subscription is fetched twice within
\* MIN_CHECK_INTERVAL, also when a run starts while another is in progress.
C8_NoRefetchWithinCooldown ==
    \A e1, e2 \in requests :
       (e1.id = e2.id /\ e1 # e2) => Abs(e2.at - e1.at) >= MIN_CHECK_INTERVAL

\* The calls of sendPriceDropEmail for the same subscription and the same
\* transition oldPrice -> newPrice as the call e.
SameDrop(e) ==
    {f \in sent : /\ f.id = e.id
                  /\ f.data.oldPrice = e.data.oldPrice
                  /\ f.data.newPrice = e.data.newPrice}

\* The times the stored lastSeenPrice of e's subscription made that transition.
Transitions(e) ==
    {l \in seenLog : /\ l.id = e.id
                     /\ l.from = Some(e.data.oldPrice)
                     /\ l.to = Some(e.data.newPrice)}

\* C9 (at most one attempt per detected drop): sendPriceDropEmail is
\* called more than once for a subscription and a transition P -> C only
\* if the stored price made that transition as many times, also when a
\* manually triggered run overlaps another run.
C9_OneAttemptPerDrop ==
    \A e \in sent :
       Cardinality(SameDrop(e)) > 1 =>
          Cardinality(SameDrop(e)) <= Cardinality(Transitions(e))

\* C10 (notify only below the persisted baseline): every call of
\* sendPriceDropEmail carries a new price strictly less than the
\* lastSeenPrice that was persisted for the subscription when the check
\* compared, also when the run loaded its baseline before another run
\* updated it.
C10_BelowPersisted ==
    \A e \in sent : e.persisted # None /\ e.data.newPrice < Get(e.persisted)

----------------------------------------------------------------------------
(* Failures inside a run *)

\* The outcomes of the calls of sendPriceDropEmail made by the check c.
MailOf(c) == {e \in events : e.kind = "mail" /\ e.inst = c.inst /\ e.id = c.id}

Undelivered(c) == \E e \in MailOf(c) : e.what \in {"failed", "disabled"}

\* C11 (failed delivery is not stamped): once the most recent check of a
\* subscription is complete, if its call of sendPriceDropEmail did not
\* deliver (sendMail rejected, or the transport was never set), the stored
\* lastNotifiedAt is what it was before that check.
C11_FailedNotStamped ==
    \A c \in checks :
       (Latest(c) /\ ~ItemOpen(c) /\ Undelivered(c)) =>
          store[c.id].lastNotifiedAt = c.notifiedBefore

\* C12 (no rollback on failed delivery): after a call of sendPriceDropEmail
\* that did not deliver, made by the most recent check of a subscription,
\* the stored lastSeenPrice is the price that check observed, lower than
\* its baseline, during the rest of the check and after it.
C12_NoRollback ==
    \A c \in checks :
       (Latest(c) /\ Undelivered(c)) =>
          /\ store[c.id].product.lastSeenPrice = c.currentPrice
          /\ Get(c.currentPrice) < Get(c.lastSeenPrice)

C12_Witness ==
    \E c \in checks :
       /\ Latest(c) /\ ~ItemOpen(c)
       /\ \E e \in MailOf(c) : e.what = "failed"
       /\ c.lastSeenPrice = Some(10000)
       /\ store[c.id].product.lastSeenPrice = Some(8999)

\* What the run `inst` has selected, fetched, evaluated, notified.
SelectedBy(inst, ev) == {e.id : e \in {x \in ev : x.kind = "selected" /\ x.inst = inst}}

FetchedBy(inst, rq) == {e.id : e \in {x \in rq : x.inst = inst}}

CheckedBy(inst, ch) == {c.id : c \in {x \in ch : x.inst = inst}}

NotifiedBy(inst, ev) == {e.id : e \in {x \in ev : x.kind = "notified" /\ x.inst = inst}}

FailedIn(inst, ev) == {e.id : e \in {x \in ev : x.kind = "saveFailed" /\ x.inst = inst}}

\* C13 (per-item error isolation): when a run of checkPriceDrops returns,
\* on a store whose writes can fail, a fetch has been issued for every
\* subscription its cursor selected, every selected subscription whose
\* saves succeeded has been evaluated, and the returned counts are the
\* number of subscriptions evaluated and the number notified.
C13_Isolation ==
    [][ \A r \in Runs :
          (runs[r].pc # "idle" /\ runs'[r].pc = "idle") =>
             LET inst == runs[r].inst
             IN  /\ SelectedBy(inst, events') = FetchedBy(inst, requests')
                 /\ SelectedBy(inst, events') \ FailedIn(inst, events')
                       \subseteq CheckedBy(inst, checks')
                 /\ runs'[r].result =
                       Some([checked  |-> Cardinality(CheckedBy(inst, checks')),
                             notified |-> Cardinality(NotifiedBy(inst, events'))]) ]_vars

\* A run has returned after a failed save on its first item, having
\* evaluated a later item of the same batch and the item of the final batch.
C13_Witness ==
    /\ runs[1].pc = "idle"
    /\ runs[1].result = Some([checked |-> 2, notified |-> 1])
    /\ [kind |-> "saveFailed", inst |-> 1, id |-> 1, what |-> "lastCheckedAt"] \in events
    /\ CheckedBy(1, checks) = {2, 3}

\* C20 (unparseable price): the step that evaluates a subscription whose
\* observed price is null, or whose baseline is null, writes a
\* lastCheckedAt not before its fetch, leaves the stored lastSeenPrice
\* and lastNotifiedAt as they were, calls sendPriceDropEmail not at all, ends the processing of the
\* item, and adds one to the run's checked count and nothing to its
\* notified count; nothing is sent, saved or stamped for that check later.
C20_UnparseableFrame ==
    /\ [][ \A c \in checks' \ checks :
             ~Comparable(c) =>
                /\ store'[c.id].lastCheckedAt = c.checkedAt
                /\ c.checkedAt # None /\ Get(c.checkedAt) <= clock
                /\ \A e \in requests : (e.inst = c.inst /\ e.id = c.id) =>
                                            e.at <= Get(c.checkedAt)
                /\ store'[c.id].product.lastSeenPrice = store[c.id].product.lastSeenPrice
                /\ store'[c.id].lastNotifiedAt = store[c.id].lastNotifiedAt
                /\ sent' = sent
                /\ \A r \in Runs :
                      runs[r].inst = c.inst =>
                         /\ runs'[r].sub = NoSub
                         /\ ~runs'[r].rejected
                         /\ IF runs'[r].pc = "idle"
                            THEN runs'[r].result = Some([checked  |-> runs[r].checked + 1,
                                                         notified |-> runs[r].notified])
                            ELSE /\ runs'[r].checked = runs[r].checked + 1
                                 /\ runs'[r].notified = runs[r].notified ]_vars
    /\ [](\A c \in checks :
             ~Comparable(c) =>
                /\ SentBy(c) = {} /\ MailOf(c) = {}
                /\ c.id \notin NotifiedBy(c.inst, events)
                /\ c.id \notin FailedIn(c.inst, events)
                /\ \A l \in seenLog : ~(l.inst = c.inst /\ l.id = c.id))

\* A run has returned after evaluating a subscription whose fetch gave
\* no price and one that has no baseline but whose fetch gave a price.
C20_Witness ==
    /\ \E c \in checks : /\ c.currentPrice = None /\ c.lastSeenPrice # None
                         /\ store[c.id].lastCheckedAt = c.checkedAt
    /\ \E c \in checks : /\ c.currentPrice # None /\ c.lastSeenPrice = None
                         /\ store[c.id].lastCheckedAt = c.checkedAt
                         /\ store[c.id].product.lastSeenPrice = None
    /\ runs[1].pc = "idle" /\ runs[1].result = Some([checked |-> 3, notified |-> 0])

----------------------------------------------------------------------------
(* Properties of the periodic trigger *)

ActiveHandles == {t.id : t \in timers.active}

\* This step is a call of startPeriodicChecks / of stopPeriodicChecks.
IsCall(kind) == \E e \in events' \ events : e.kind = kind

\* C14 (idempotent start): at every moment at most one interval timer is
\* active, and it is the one notifierInterval holds; a call of
\* startPeriodicChecks made while notifierInterval is set creates no timer
\* and starts no run.
C14_IdempotentStart ==
    /\ [](/\ Cardinality(timers.active) <= 1
          /\ ActiveHandles = (IF notifierInterval = None THEN {}
                                                         ELSE {Get(notifierInterval)}))
    /\ [][ (IsCall("start") /\ notifierInterval # None) =>
             UNCHANGED <<timers, notifierInterval, runs, runSeq>> ]_vars

\* startPeriodicChecks has been called while the trigger was running.
C14_Witness ==
    /\ \E e \in events : e.kind = "start" /\ e.what = "already"
    /\ \E e \in events : e.kind = "start" /\ e.what = "started"
    /\ Cardinality(timers.active) = 1
    /\ timers.issued = 1
    /\ runSeq = 1

\* C15 (stop cancels the trigger): a run of checkPriceDrops is begun by
\* the timer only while notifierInterval is set, by the timer it holds;
\* stopPeriodicChecks called while it is null changes neither the timers
\* nor the runs; startPeriodicChecks called while it is null sets it to
\* a timer that is active.
C15_StopCancels ==
    [][ /\ \A r \in Runs :
             (runs[r].pc = "idle" /\ runs'[r].pc # "idle" /\ runs'[r].caller = "timer") =>
                notifierInterval # None
        /\ \A e \in events' \ events :
             e.kind = "fired" => Some(e.id) = notifierInterval
        /\ (IsCall("stop") /\ notifierInterval = None) =>
             UNCHANGED <<timers, notifierInterval, runs, runSeq, store>>
        /\ IsCall("stop") => (notifierInterval' = None /\ timers'.active = {})
        /\ (IsCall("start") /\ notifierInterval = None) =>
             /\ notifierInterval' # None
             /\ \E t \in timers'.active : t.id = Get(notifierInterval')
                                          /\ t.due = clock + NOTIFIER_INTERVAL ]_vars

\* The trigger was started, stopped and started again: the first timer
\* never fired although its time came, the second one has fired.
C15_Witness ==
    /\ \E e \in events : e.kind = "stop" /\ e.what = "stopped" /\ e.id = 1
    /\ \E e \in events : e.kind = "fired" /\ e.id = 2
    /\ \A e \in events : e.kind = "fired" => e.id # 1
    /\ clock >= T0 + 2 * NOTIFIER_INTERVAL

\* The runs that rejected to the periodic trigger.
PeriodicRejections == {e \in events : e.kind = "rejected" /\ e.what \in {"initial", "timer"}}

\* C16 (fatal run failure): a run that fails as a whole ends rejected,
\* without a result; the step leaves the timers and notifierInterval as
\* they were (the timer stays active, due at the same time); a manually
\* triggered run answers 500, a run of the periodic trigger answers nothing.
C16_FatalRunFailure ==
    /\ [][ \A r \in Runs :
             (runs[r].pc # "idle" /\ runs'[r].pc = "idle" /\ runs'[r].rejected) =>
                /\ UNCHANGED <<timers, notifierInterval>>
                /\ runs'[r].result = None
                /\ runs'[r].response = (IF runs[r].caller = "manual" THEN 500 ELSE 0) ]_vars
    /\ []((PeriodicRejections # {} /\ notifierInterval # None) =>
             Get(notifierInterval) \in ActiveHandles)

\* A run begun by the timer was rejected, and the same timer has begun
\* a later run; a manually triggered run was answered 500.
C16_Witness ==
    /\ \E e \in PeriodicRejections :
          /\ e.what = "timer"
          /\ \E f, g \in events : /\ f.kind = "fired" /\ f.inst = e.inst
                                   /\ g.kind = "fired" /\ g.inst > e.inst /\ g.id = f.id
    /\ notifierInterval # None

C16_WitnessManual ==
    \E r \in Runs : runs[r].rejected /\ runs[r].caller = "manual" /\ runs[r].response = 500

----------------------------------------------------------------------------
(* Properties of the scraper *)

\* C17 (extraction never raises): every call of scrapeProduct, for any
\* URL, any outcome of the static fetch and any outcome of the rendering,
\* returns a product with a name, its URL and a price that is a text found
\* in the page or "unknown"; it never throws.
C17_NeverRaises ==
    (scrape.pc = "done" /\ scrape.fn = "scrapeProduct") =>
       /\ ~scrape.threw
       /\ scrape.product # None
       /\ Get(scrape.product).url = scrape.url
       /\ Get(scrape.product).price # <<>>

StaticFailures == {"networkError", "timeout", "httpError", "noPrice"}

\* C18 (rendering fallback in a price check): every call of
\* fetchCurrentPrice whose static fetch failed (rejection, timeout,
\* response not ok, no price found) has attempted the rendering before
\* returning null; and no call of fetchCurrentPrice throws.
C18_RenderingFallback ==
    (scrape.pc = "done" /\ scrape.fn = "fetchCurrentPrice") =>
       /\ ~scrape.threw
       /\ scrape.static \in StaticFailures => scrape.rendered

----------------------------------------------------------------------------
(* Properties of parsePriceString *)

\* The text with every "." after the first one removed.
RECURSIVE SinglePoint(_, _)
SinglePoint(s, seen) ==
    IF s = <<>> THEN <<>>
    ELSE IF Head(s) = "." /\ seen THEN SinglePoint(Tail(s), seen)
    ELSE <<Head(s)>> \o SinglePoint(Tail(s), seen \/ Head(s) = ".")

\* The normalization in words: strip everything except digits, commas
\* and a single decimal point, remove the commas, parse as a decimal;
\* null if no digits remain or parsing fails.
Normalized(priceStr) ==
    LET kept == SinglePoint(SelectSeq(priceStr, LAMBDA c : c \in NumClass), FALSE)
        s    == SelectSeq(kept, LAMBDA c : c # ",")
    IN  IF SelectSeq(s, LAMBDA c : c \in Digits) = <<>> THEN None ELSE parseFloat(s)

\* C19 (numeric normalization): for every price text, parsePriceString
\* returns the value of the normalization (strip everything except
\* digits, commas and a single decimal point, remove commas, parse as a
\* decimal), and null when no digits remain.
C19_Normalization ==
    parse.called => parse.value = Normalized(parse.priceStr)

\* The examples the claim lists.
C19_Examples ==
    /\ parsePriceString(T_1299) = Some(129900)
    /\ parsePriceString(T_EGP) = Some(74929)
    /\ parsePriceString(T_USD) = Some(9999)
    /\ parsePriceString(T_unknown) = None
    /\ parsePriceString(T_Free) = None

----------------------------------------------------------------------------
(* Properties of a run as a whole *)

\* The calls of sendPriceDropEmail made by the run `inst`.
TriggeredBy(inst, sn) == {e \in sn : e.inst = inst}

\* C21 (result of a run): when checkPriceDrops resolves, on a store whose
\* writes can fail, every selected subscription has been fetched; checked
\* is the number of subscriptions whose lastCheckedAt this run persisted,
\* notified is the number of calls of sendPriceDropEmail this run made,
\* and notified <= checked <= number selected; a run that selected
\* nothing has fetched nothing and written nothing.
C21_RunResult ==
    [][ \A r \in Runs :
          (runs[r].pc # "idle" /\ runs'[r].pc = "idle" /\ ~runs'[r].rejected) =>
             LET inst   == runs[r].inst
                 result == Get(runs'[r].result)
             IN  /\ runs'[r].result # None
                 /\ SelectedBy(inst, events') = FetchedBy(inst, requests')
                 /\ result.checked = Cardinality(CheckedBy(inst, checks'))
                 /\ result.notified = Cardinality(TriggeredBy(inst, sent'))
                 /\ result.notified <= result.checked
                 /\ result.checked <= Cardinality(SelectedBy(inst, events'))
                 /\ SelectedBy(inst, events') = {} =>
                       /\ result = [checked |-> 0, notified |-> 0]
                       /\ FetchedBy(inst, requests') = {}
                       /\ store' = store ]_vars

\* C22 (monotonic check timestamps): in every step the stored
\* lastCheckedAt of a subscription, once set, stays set and does not
\* decrease, also when runs overlap; and a set lastCheckedAt is never
\* before createdAt.
C22_MonotonicChecked ==
    /\ [][ \A k \in Ids :
             store[k].lastCheckedAt # None =>
                /\ store'[k].lastCheckedAt # None
                /\ Get(store'[k].lastCheckedAt) >= Get(store[k].lastCheckedAt) ]_vars
    /\ [](\A k \in Ids :
             store[k].lastCheckedAt # None =>
                Get(store[k].lastCheckedAt) >= store[k].createdAt)

\* C23 (lastSeenPrice is unset or non-negative): in every state of the
\* collection reached by subscribe requests that pass the validators,
\* each subscription's lastSeenPrice is unset or a number >= 0.
C23_NonNegativeSeen ==
    \A k \in Ids :
       \/ store[k].product.lastSeenPrice = None
       \/ Get(store[k].product.lastSeenPrice) >= 0

(***************************************************************************)
(* Batching                                                                *)
(***************************************************************************)
\* Position of subscription k in the stream of a run that selected `sel`
\* (the cursor yields the documents in the order of the collection).
PosIn(k, sel) == Cardinality({j \in sel : j <= k})

Processing(rec) == rec.pc \notin {"idle", "count", "find", "next"}

\* C24 (batching): within one run the streamed subscriptions are processed
\* one at a time in cursor order: an item's fetch is issued only when every
\* item before it in the stream has been fetched and closed, and nothing
\* still in the cursor or later in the batch has been fetched.  The batch
\* in hand is the next BATCH_SIZE items of the stream, or the shorter rest
\* of the stream once the cursor is exhausted.  No subscription is fetched
\* twice by a run, and a run that resolves has fetched every streamed one.
C24_Batching ==
    /\ [](\A r \in Runs :
            LET rec     == runs[r]
                sel     == SelectedBy(rec.inst, events)
                fetched == FetchedBy(rec.inst, requests)
            IN  rec.pc # "idle" =>
                  /\ Len(rec.batch) <= BATCH_SIZE
                  /\ fetched \subseteq sel
                  /\ \A a \in fetched : \A b \in sel : b < a => b \in fetched
                  /\ \A n \in 1..Len(rec.cursor) : rec.cursor[n].id \notin fetched
                  /\ \A e1, e2 \in requests :
                        (e1.inst = rec.inst /\ e2.inst = rec.inst /\ e1.id = e2.id) => e1 = e2
                  /\ Processing(rec) =>
                        /\ rec.i \in 1..Len(rec.batch)
                        /\ rec.phase = "loop" => Len(rec.batch) = BATCH_SIZE
                        /\ rec.phase = "final" => rec.cursor = <<>>
                        /\ \A n \in 1..Len(rec.batch) :
                              /\ (PosIn(rec.batch[n].id, sel) - 1) % BATCH_SIZE = n - 1
                              /\ n > rec.i => rec.batch[n].id \notin fetched
                              /\ n < rec.i =>
                                    /\ rec.batch[n].id \in fetched
                                    /\ \/ \E c \in checks :
                                             /\ c.inst = rec.inst
                                             /\ c.id = rec.batch[n].id
                                             /\ ~ItemOpen(c)
                                       \/ rec.batch[n].id \in FailedIn(rec.inst, events)
                        /\ \A a \in fetched : a <= rec.batch[rec.i].id)
    /\ [][ \A r \in Runs :
             (runs[r].pc # "idle" /\ runs'[r].pc = "idle" /\ ~runs'[r].rejected) =>
                FetchedBy(runs[r].inst, requests') =
                   SelectedBy(runs[r].inst, events') ]_vars

\* The shorter final batch is in hand after a full batch was processed.
C24_Witness ==
    \E r \in Runs :
       /\ runs[r].pc = "saveChecked"
       /\ runs[r].phase = "final"
       /\ Len(runs[r].batch) < BATCH_SIZE
       /\ Cardinality(CheckedBy(runs[r].inst, checks)) = BATCH_SIZE

PageTitle(url) ==
    IF url = U_A THEN "Kettle 2L (2nd edition)"
    ELSE IF url = U_B THEN "Toaster XL"
    ELSE "Lamp"

\* C26 (name refreshed by a check): once a check that obtained a price is
\* over, the stored product name is the title of the page it fetched.
C26_NameRefreshed ==
    \A c \in checks :
       (Latest(c) /\ ~ItemOpen(c) /\ c.currentPrice # None) =>
          store[c.id].product.name = PageTitle(store[c.id].product.url)

(***************************************************************************)
(* Pacing                                                                  *)
(***************************************************************************)
\* utils.ts line 43: the least value randomDelay() returns, in ms.
RANDOM_DELAY_MIN == 800

\* C27 (pacing): every fetch of a run is issued at least RANDOM_DELAY_MIN
\* after the run began, and at least RANDOM_DELAY_MIN after the fetch of
\* every earlier item of the run returned.
C27_Pacing ==
    /\ \A e \in requests : e.at >= e.now + RANDOM_DELAY_MIN
    /\ \A c \in checks : \A e \in requests :
          (e.inst = c.inst /\ e.id > c.id) =>
             e.at >= Get(c.checkedAt) + RANDOM_DELAY_MIN

\* The second half alone, for two items on different hosts (the limiter
\* does not delay the later one).
C27_BetweenItems ==
    \A c \in checks : \A e \in requests :
       (e.inst = c.inst /\ e.id > c.id
          /\ e.host # extractDomain(store[c.id].product.url)) =>
          e.at >= Get(c.checkedAt) + RANDOM_DELAY_MIN

----------------------------------------------------------------------------
(* Properties of scrapeProduct's escalation *)

HighDefenseUrls == {U_Z, U_E}

\* C28 (escalation result): a call of scrapeProduct for a valid URL that
\* is not high-defense returns; what it returns is the product extracted
\* from the static document when the static fetch succeeded and that
\* product passed the validity check, and the product of the rendering in
\* every other case.
C28_EscalationResult ==
    (scrape.pc = "done" /\ scrape.fn = "scrapeProduct"
       /\ isValidUrl(scrape.url) /\ scrape.url \notin HighDefenseUrls) =>
       /\ ~scrape.threw
       /\ scrape.product # None
       /\ IF scrape.extracted # None /\ ~scrape.invalid
          THEN scrape.product = scrape.extracted /\ ~scrape.rendered
          ELSE scrape.rendered /\ scrape.product = scrape.renderResult

\* The same for the calls that return.
C28_OnReturn ==
    (scrape.pc = "done" /\ scrape.fn = "scrapeProduct" /\ ~scrape.threw
       /\ scrape.url \notin HighDefenseUrls) =>
       /\ scrape.product # None
       /\ IF scrape.extracted # None /\ ~scrape.invalid
          THEN scrape.product = scrape.extracted /\ ~scrape.rendered
          ELSE scrape.rendered /\ scrape.product = scrape.renderResult

\* C29 (no static fetch for a high-defense host): a call of scrapeProduct
\* or fetchCurrentPrice for an amazon or ebay URL never awaits a static
\* fetch and records no outcome of one; when it is over the rendering has
\* been attempted.
C29_NoStaticFetch ==
    (scrape.pc # "idle" /\ scrape.url \in HighDefenseUrls) =>
       /\ scrape.pc # "static"
       /\ scrape.static = "none"
       /\ scrape.extracted = None
       /\ scrape.rendered

C29_Witness ==
    /\ scrape.pc = "done"
    /\ scrape.fn = "fetchCurrentPrice"
    /\ scrape.url = U_E
    /\ scrape.rendered
    /\ scrape.price = Some(8999)

C29_WitnessScrape ==
    /\ scrape.pc = "done"
    /\ scrape.fn = "scrapeProduct"
    /\ scrape.url = U_Z
    /\ scrape.product = Some(Product(N_Kettle, T_105, U_Z))

AllZero(digits) == \A i \in 1..Len(digits) : digits[i] = "0"

\* The five conditions of an invalid extraction.
ClaimedInvalid(result) ==
    LET priceDigits == SelectSeq(result.price, LAMBDA c : c \in Digits)
    IN  \/ result.name.isUrl \/ result.name.text = <<>>
        \/ Len(result.name.text) < 10
        \/ toLowerCase(result.name.text) \in genericNames
        \/ result.price = T_unknown
        \/ priceDigits = <<>> \/ AllZero(priceDigits)

\* C30 (validity predicate): the verdict of isInvalidExtraction on an
\* extracted product is true exactly when the name is empty or the URL,
\* the name is shorter than 10 characters, the name is, up to case, one
\* of the generic placeholders, the price is "unknown", or the digits of
\* the price are none or numerically zero; a longer title that merely
\* contains a placeholder word is not invalid.
C30_InvalidIff ==
    scrape.extracted # None =>
       (scrape.invalid <=> ClaimedInvalid(Get(scrape.extracted)))

----------------------------------------------------------------------------
(* Properties of the name extraction *)

\* The name by the priority order platform selector, og:title, headings,
\* document title, else the URL.
ClaimedName(src) ==
    LET title == firstTruthy(<< src.amazonTitle, src.ebayTitle, src.ogTitle,
                                src.h1, src.h2, src.titleTag >>)
    IN  IF title # <<>> THEN NameOf(title) ELSE UrlAsName

\* C31 (priority of the name strategies): the name extracted from a
\* document, by extractFromHtml or in the rendered page, is the first
\* non-empty of the platform title, og:title, the h1/h2 heading and the
\* document title, in that order, and the URL when all are empty.
C31_NamePriority ==
    scrape.titles # None => Get(scrape.named) = ClaimedName(Get(scrape.titles))

\* The part of C31 that concerns the rendered page.
C31_RenderedName ==
    scrape.namedBy = "scrapeWithPuppeteer" =>
       Get(scrape.named) = ClaimedName(Get(scrape.titles))

----------------------------------------------------------------------------
(* Properties of the limiter's buckets *)

Unparseable(k) == ~store[k].product.url.valid

\* C32 (the "unknown" bucket): every fetch for a subscription whose URL
\* cannot be parsed is accounted to the hostname "unknown"; two such
\* fetches of one run start at least DOMAIN_DELAY_MS apart, the later one
\* at least DOMAIN_DELAY_MS after the earlier one returned.
C32_UnknownBucket ==
    /\ \A e \in requests : Unparseable(e.id) => e.host = "unknown"
    /\ \A e1, e2 \in requests :
          (e1.inst = e2.inst /\ e1 # e2 /\ Unparseable(e1.id) /\ Unparseable(e2.id)) =>
             Abs(e2.at - e1.at) >= DOMAIN_DELAY_MS
    /\ \A c \in checks : \A e \in requests :
          (e.inst = c.inst /\ e.id > c.id /\ Unparseable(e.id) /\ Unparseable(c.id)) =>
             e.at >= Get(c.checkedAt) + DOMAIN_DELAY_MS

\* The second unparseable item was held back for exactly DOMAIN_DELAY_MS.
C32_Witness ==
    \E c \in checks : \E e \in requests :
       /\ e.inst = c.inst /\ c.id = 1 /\ e.id = 2
       /\ Unparseable(1) /\ Unparseable(2)
       /\ e.host = "unknown"
       /\ e.at = Get(c.checkedAt) + DOMAIN_DELAY_MS

\* The requests of the run in slot r whose item is not yet closed.
InFlightItems(r) ==
    {e.id : e \in {x \in requests : x.inst = runs[r].inst}}
       \ CheckedBy(runs[r].inst, checks)

\* C33 (the limiter's map belongs to one run): a run begins with an empty
\* map; the only step that changes the map of a run is the return of that
\* run's own fetch, which sets the entry of the item's hostname to the
\* current time and touches no other run; and a run has at most one item
\* in flight, the one its loop is at.
C33_OwnMap ==
    /\ [][ \A r \in Runs :
             /\ (runs[r].pc = "idle" /\ runs'[r].pc # "idle") =>
                   runs'[r].domainLastRequest = [h \in Hosts |-> 0]
             /\ (runs[r].pc # "idle" /\ runs'[r].pc # "idle"
                   /\ runs'[r].domainLastRequest # runs[r].domainLastRequest) =>
                   /\ runs[r].pc = "fetch"
                   /\ runs'[r].inst = runs[r].inst
                   /\ runs'[r].domainLastRequest =
                         [runs[r].domainLastRequest EXCEPT
                            ![extractDomain(runs[r].sub.doc.product.url)] = clock]
                   /\ \A r2 \in Runs \ {r} : runs'[r2] = runs[r2] ]_vars
    /\ [](\A r \in Runs :
            runs[r].pc # "idle" =>
               /\ Cardinality(InFlightItems(r)) <= 1
               /\ InFlightItems(r) \subseteq {runs[r].sub.id})

\* Two runs overlap, on the same hostname, with different maps.
C33_Witness ==
    /\ runs[1].pc = "saveChecked"
    /\ runs[2].pc = "fetch"
    /\ runs[1].sub.id = runs[2].sub.id
    /\ runs[1].domainLastRequest["shop.example"] > 0
    /\ runs[2].domainLastRequest["shop.example"] = 0

----------------------------------------------------------------------------
(* Properties of consecutive checks *)

\* c2 is the check of the same subscription that follows c1.
Consecutive(c1, c2) ==
    /\ c1.id = c2.id
    /\ c1.inst < c2.inst
    /\ \A d \in checks : d.id = c1.id => ~(c1.inst < d.inst /\ d.inst < c2.inst)

\* C34 (no repeated notification for an unchanged price): when two
\* consecutive checks of a subscription, by runs that do not overlap,
\* both obtain the same price, the second makes no call of
\* sendPriceDropEmail; once it is over, and as long as it is the latest,
\* the stored lastSeenPrice is its baseline and lastNotifiedAt is what it
\* was before it.
C34_NoRepeat ==
    \A c1, c2 \in checks :
       (Consecutive(c1, c2) /\ c1.currentPrice # None
          /\ c2.currentPrice = c1.currentPrice) =>
          /\ SentBy(c2) = {}
          /\ (Latest(c2) /\ ~ItemOpen(c2)) =>
                /\ store[c2.id].product.lastSeenPrice = c2.lastSeenPrice
                /\ store[c2.id].lastNotifiedAt = c2.notifiedBefore

\* A drop was notified by one run and observed again by the next.
C34_Witness ==
    \E c1, c2 \in checks :
       /\ Consecutive(c1, c2)
       /\ c1.currentPrice = Some(8999) /\ c2.currentPrice = Some(8999)
       /\ SentBy(c1) # {}
       /\ ~ItemOpen(c2)
       /\ store[c2.id].lastNotifiedAt = c2.notifiedBefore
       /\ c2.notifiedBefore # None

----------------------------------------------------------------------------
(* Order of the writes of one item *)

EventsOf(kind, inst, id) ==
    {ev \in events : ev.kind = kind /\ ev.inst = inst /\ ev.id = id}

\* C35 (write ordering within one item): at the step in which a run calls
\* sendPriceDropEmail for a subscription, the store already holds a
\* lastCheckedAt and holds the notified new price as lastSeenPrice, the
\* run has recorded its check, and it has not written lastNotifiedAt;
\* and a run writes lastNotifiedAt only after its call of
\* sendPriceDropEmail has returned.
C35_WriteOrder ==
    /\ [][ \A e \in sent' \ sent :
             /\ store'[e.id].lastCheckedAt # None
             /\ store'[e.id].product.lastSeenPrice = Some(e.data.newPrice)
             /\ \E c \in checks : c.inst = e.inst /\ c.id = e.id /\ c.checkedAt # None
             /\ EventsOf("mail", e.inst, e.id) = {}
             /\ EventsOf("notified", e.inst, e.id) = {}
             /\ store'[e.id].lastNotifiedAt = store[e.id].lastNotifiedAt ]_vars
    /\ [](\A ev \in events :
            /\ ev.kind = "mail" => \E e \in sent : e.inst = ev.inst /\ e.id = ev.id
            /\ ev.kind = "notified" => EventsOf("mail", ev.inst, ev.id) # {})

\* A drop went through the three writes.
C35_Witness ==
    \E ev \in events :
       /\ ev.kind = "notified"
       /\ \E e \in sent :
             /\ e.inst = ev.inst /\ e.id = ev.id
             /\ store[e.id].product.lastSeenPrice = Some(e.data.newPrice)
             /\ store[e.id].lastNotifiedAt # None
             /\ store[e.id].lastCheckedAt # None

----------------------------------------------------------------------------
(* The collection under runs and subscribe requests *)

\* C36 (a run neither creates nor deletes subscriptions): a step of a run
\* leaves the number of documents unchanged; no step removes a document
\* or replaces it by another subscription, also for a document inserted
\* after the run's cursor was opened; the only step that adds a document
\* is the save of a subscribe request.
C36_SameSubscriptions ==
    [][ /\ runs' # runs => Len(store') = Len(store)
        /\ Len(store') >= Len(store)
        /\ \A k \in Ids :
              /\ store'[k].email = store[k].email
              /\ store'[k].product.url = store[k].product.url
              /\ store'[k].createdAt = store[k].createdAt
        /\ Len(store') > Len(store) =>
              /\ Len(store') = Len(store) + 1
              /\ \E q \in Reqs : reqs[q].pc = "save" /\ reqs'[q].pc = "idle" ]_vars

\* A subscription was accepted after the run's cursor was opened; the run
\* has written lastCheckedAt and lastSeenPrice back and its last write is
\* pending.
C36_Witness ==
    /\ Len(store) = 2
    /\ runs[1].pc = "saveNotified"
    /\ runs[1].inst = 1
    /\ SelectedBy(1, events) = {1}
    /\ store[1].lastCheckedAt # None
    /\ store[1].product.lastSeenPrice = Some(8999)

----------------------------------------------------------------------------
(* The two price normalizers *)

\* C37 (the normalizers agree): for every price text, the number the last
\* lines of fetchCurrentPrice derive from it equals parsePriceString of it.
C37_NormalizersAgree ==
    parse.called => parse.observed = parse.value

\* C38: floating widget toggle. For any sequence of clicks on the floating
\* button and the close button, once every pending timeout has fired the
\* panel is displayed (display flex) exactly when isOpen is true; re-opening
\* within 300 ms of closing does not end with isOpen true and the panel
\* hidden.
C38_DisplayMatchesOpen ==
    (widget.made /\ widget.timeouts = {}) =>
        (widget.display = "flex" <=> widget.isOpen)

\* The part of C38 that the handlers do keep: right after a click, before
\* any timeout runs, display flex follows from isOpen.
C38_OpenIsDisplayed ==
    [][ (widget'.issued = widget.issued + 1 /\ widget'.isOpen)
            => widget'.display = "flex" ]_vars

IsPrefix(s, t) == Len(s) <= Len(t) /\ s = SubSeq(t, 1, Len(s))

\* C39: userscript loading chain. inject() tries the script tag, then the
\* GM_xmlhttpRequest inline load, then the iframe; initFloating is called at
\* most once per inject() call, and the iframe is appended only if neither
\* script method led to a call of initFloating.
C39_LoadingChain ==
    /\ IsPrefix(page.tried, Chain)
    /\ page.initCalls <= 1
    /\ page.returned = "iframe" => page.initCalls = 0

\* The parts of C39 that hold: the order of the methods, and that a call of
\* inject() with the floating button in the document changes nothing on the
\* page and calls nothing.
C39_Order == IsPrefix(page.tried, Chain)

C39_SecondInject ==
    [][ (page.button /\ page'.injects = page.injects + 1) =>
            /\ page'.pc = "idle"
            /\ page'.initCalls = 0
            /\ page'.tried = <<>>
            /\ page'.button = page.button
            /\ page'.iframes = page.iframes
            /\ page'.scripts = page.scripts
            /\ page'.PriceDropWidget = page.PriceDropWidget
            /\ widget' = widget ]_vars
====
